---- MODULE Spec2Model ----
(***************************************************************************)
(* The command-line pipeline of cmdLineParser (src/cmdline.py): the        *)
(* interactive shell, the per-token sanitizer and rewrite pass, the        *)
(* verbosity shorthand, the option parser's answer, header merging,        *)
(* mnemonic expansion and the mandatory-target check.                      *)
(*                                                                         *)
(* A token is a sequence of characters.  A character is a one-character    *)
(* string; a code point outside ASCII is written "U+XXXX".  Positions are  *)
(* Python positions (the first token is at position 0): At(s, k) is s[k].  *)
(***************************************************************************)
EXTENDS Integers, Sequences, FiniteSets, TLC

\* -------------------------------------------------------------------- bounds

\* the longest command line of each family of inputs
MaxLexArgs == 2
MaxAggArgs == 4
MaxFileArgs == 6
MaxRuleArgs == 2
MaxVerbArgs == 4
\* how many times the shell may prompt again
MaxPrompts == 1
\* how many destinations the parser's answer sets
MaxDests == 2

\* ---------------------------------------------------------------- characters

LowerLetters ==
  {"a","b","c","d","e","f","g","h","i","j","k","l","m",
   "n","o","p","q","r","s","t","u","v","w","x","y","z"}

UpperSeq ==
  <<"A","B","C","D","E","F","G","H","I","J","K","L","M",
    "N","O","P","Q","R","S","T","U","V","W","X","Y","Z">>

LowerSeq ==
  <<"a","b","c","d","e","f","g","h","i","j","k","l","m",
    "n","o","p","q","r","s","t","u","v","w","x","y","z">>

UpperLetters == {UpperSeq[k] : k \in 1..Len(UpperSeq)}

Digits == {"0","1","2","3","4","5","6","7","8","9"}

\* \w of the re module on text: letters, digits, underscore (U+4E00 is a letter)
WordChars == LowerLetters \cup UpperLetters \cup Digits \cup {"_", "U+4E00"}

\* \s of the re module on text and the characters str.strip() removes: the
\* characters for which str.isspace() is true
Whitespace ==
  {"\t", "\n", "U+000B", "\f", "\r", "U+001C", "U+001D", "U+001E", "U+001F",
   " ", "U+0085", "U+00A0", "U+1680", "U+2000", "U+2001", "U+2002", "U+2003",
   "U+2004", "U+2005", "U+2006", "U+2007", "U+2008", "U+2009", "U+200A",
   "U+2028", "U+2029", "U+202F", "U+205F", "U+3000"}

\* the dash look-alikes of line 987
DashLookalikes ==
  {"U+2010", "U+2013", "U+2212", "U+2014", "U+4E00", "U+1680", "U+FE63", "U+FF0D"}

\* the quotation marks of line 990
QuotationMarks ==
  {"U+00AB", "U+2039", "U+00BB", "U+203A", "U+201E", "U+201C", "U+201F", "U+201D",
   "U+2019", "U+275D", "U+275E", "U+276E", "U+276F", "U+2E42", "U+301D", "U+301E",
   "U+301F", "U+FF02", "U+201A", "U+2018", "U+201B", "U+275B", "U+275C"}

\* the code points of xrange(0x2018, 0x2020), line 996
RichQuoteRange ==
  {"U+2018", "U+2019", "U+201A", "U+201B", "U+201C", "U+201D", "U+201E", "U+201F"}

FullWidthComma == "U+FF0C"

\* ------------------------------------------------------------ string helpers

At(s, k) == s[k + 1]

Cat3(a, b, c) == a \o b \o c

StartsWith(s, p) == Len(s) >= Len(p) /\ SubSeq(s, 1, Len(p)) = p

HasChar(s, c) == \E k \in 1..Len(s) : s[k] = c

\* position (from 1) of the first occurrence of character c in s, 0 when absent
FirstPos(s, c) ==
  IF HasChar(s, c)
  THEN CHOOSE k \in 1..Len(s) : s[k] = c /\ \A j \in 1..(k - 1) : s[j] # c
  ELSE 0

Contains(s, sub) ==
  \E k \in 0..(Len(s) - Len(sub)) : SubSeq(s, k + 1, k + Len(sub)) = sub

\* number of leading characters of s that belong to set
LeadRun(s, set) ==
  CHOOSE n \in 0..Len(s) :
    /\ \A k \in 1..n : s[k] \in set
    /\ (n = Len(s) \/ s[n + 1] \notin set)

\* number of trailing characters of s that belong to set
TailRun(s, set) ==
  CHOOSE n \in 0..Len(s) :
    /\ \A k \in (Len(s) - n + 1)..Len(s) : s[k] \in set
    /\ (n = Len(s) \/ s[Len(s) - n] \notin set)

\* str.strip(chars)
StripChars(s, set) ==
  IF LeadRun(s, set) = Len(s)
  THEN << >>
  ELSE SubSeq(s, LeadRun(s, set) + 1, Len(s) - TailRun(s, set))

\* s.split('=', 1)[-1]
AfterFirstEq(s) ==
  IF HasChar(s, "=") THEN SubSeq(s, FirstPos(s, "=") + 1, Len(s)) ELSE s

\* s.split('=')[0]
BeforeFirstEq(s) ==
  IF HasChar(s, "=") THEN SubSeq(s, 1, FirstPos(s, "=") - 1) ELSE s

\* s.split('=')[1], for s containing '=': the text between the first and the
\* second '=' (up to the end when there is no second one)
SecondEqField(s) == BeforeFirstEq(AfterFirstEq(s))

\* str.isdigit()
IsDigits(s) == Len(s) > 0 /\ \A k \in 1..Len(s) : s[k] \in Digits

Lower(c) ==
  IF c \in UpperLetters
  THEN LowerSeq[CHOOSE k \in 1..Len(UpperSeq) : UpperSeq[k] = c]
  ELSE c

\* str.lower()
LowerCase(s) == [k \in 1..Len(s) |-> Lower(s[k])]

Hyphens(n) == [k \in 1..n |-> "-"]

\* ------------------------------------------------------- external collaborators

\* lib.core.settings.IGNORED_OPTIONS
IGNORED_OPTIONS == {<<"-", "-", "c", "o", "m", "p", "r", "e", "s", "s", "e", "d">>}

\* the keys of lib.core.dicts.DEPRECATED_OPTIONS
DEPRECATED_OPTIONS == {<<"-", "-", "i", "d", "e", "n", "t", "i", "f", "y", "-", "w", "a", "f">>}

\* lib.core.settings.DUMMY_URL
DUMMY_URL == <<"h", "t", "t", "p", ":", "/", "/", "f", "o", "o", "/", "b", "a", "r", "?", "i", "d", "=", "1">>

\* the usage line of the option parser (line 110), which opens its help text
VARIABLE usage

\* sys.executable's base name
InterpreterName == <<"p", "y", "t", "h", "o", "n", "3">>

\* the first position of t from p on that holds a character of cs, Len(t) + 1
\* if there is none
RECURSIVE FirstOf(_, _, _)
FirstOf(t, p, cs) ==
  IF p > Len(t) THEN Len(t) + 1
  ELSE IF t[p] \in cs THEN p
  ELSE FirstOf(t, p + 1, cs)

\* what follows the last character of seps in t
RECURSIVE AfterLastOf(_, _)
AfterLastOf(t, seps) ==
  IF \A k \in 1..Len(t) : t[k] \notin seps THEN t
  ELSE AfterLastOf(Tail(t), seps)

\* os.path.basename of posixpath
Basename(t) == AfterLastOf(t, {"/"})

\* the separators of ntpath
NtSeps == {"/", "\\"}

\* the length of the drive that ntpath.splitdrive cuts off: a UNC or device
\* drive up to the second separator after its prefix, or a character and a
\* colon
NtDriveLen(t) ==
  IF Len(t) < 2 THEN 0
  ELSE IF t[1] \in NtSeps /\ t[2] \in NtSeps
    THEN LET start == IF /\ Len(t) >= 8
                         /\ t[3] = "?" /\ t[4] \in NtSeps
                         /\ t[5] \in {"u", "U"} /\ t[6] \in {"n", "N"}
                         /\ t[7] \in {"c", "C"} /\ t[8] \in NtSeps
                      THEN 9 ELSE 3
             index == FirstOf(t, start, NtSeps)
             index2 == FirstOf(t, index + 1, NtSeps)
         IN  IF index > Len(t) \/ index2 > Len(t) THEN Len(t) ELSE index2 - 1
  ELSE IF t[2] = ":" THEN 2
  ELSE 0

\* os.path.basename of ntpath, the os.path of a Windows build
NtBasename(t) == AfterLastOf(SubSeq(t, NtDriveLen(t) + 1, Len(t)), NtSeps)

\* line 110, for the sequence cmdLineParser is given
UsageLine(a, isWin) ==
  LET name == IF isWin THEN NtBasename(a[1]) ELSE Basename(a[1]) IN
    (IF isWin THEN << >> ELSE InterpreterName \o << " " >>)
    \o (IF HasChar(name, " ") THEN << <<"\"">>[1] >> \o name \o << <<"\"">>[1] >> ELSE name)
    \o <<" ", "[", "o", "p", "t", "i", "o", "n", "s", "]">>

\* argparse's prog: the base name of sys.argv[0], the script
ParserProg == <<"s", "q", "l", "m", "a", "p", ".", "p", "y">>

\* the first position of t from p on that holds no character of cs, Len(t) + 1
\* if there is none
RECURSIVE SkipOver(_, _, _)
SkipOver(t, p, cs) ==
  IF p > Len(t) THEN p
  ELSE IF t[p] \notin cs THEN p
  ELSE SkipOver(t, p + 1, cs)

\* the position of the ")" that closes a mapping key whose text starts at p,
\* 0 if the key is not closed
RECURSIVE KeyClose(_, _, _)
KeyClose(t, p, depth) ==
  IF p > Len(t) THEN 0
  ELSE IF t[p] = ")" THEN IF depth = 1 THEN p ELSE KeyClose(t, p + 1, depth - 1)
  ELSE IF t[p] = "(" THEN KeyClose(t, p + 1, depth + 1)
  ELSE KeyClose(t, p + 1, depth)

\* the number a run of decimal digits writes, 0 for the empty run
RECURSIVE DecimalOf(_)
DecimalOf(ds) ==
  IF ds = << >> THEN 0
  ELSE 10 * DecimalOf(SubSeq(ds, 1, Len(ds) - 1))
       + (CHOOSE n \in 0..9 : <<"0", "1", "2", "3", "4", "5", "6", "7", "8", "9">>[n + 1] = ds[Len(ds)])

\* a converted text cut to the precision (none if negative) and padded with
\* spaces to the width, on the right when the "-" flag is given
FitField(text, width, prec, left) ==
  LET cut == IF prec >= 0 /\ prec < Len(text) THEN SubSeq(text, 1, prec) ELSE text
      pad == [k \in 1..(width - Len(cut)) |-> " "]
  IN  IF left THEN cut \o pad ELSE pad \o cut

\* what %s, %r and %a write for the argument at hand: the mapping
\* dict(prog=...) itself, or the value a key has selected
ConvertedArg(type, avail) ==
  IF avail = "dict" THEN <<"{", "'", "p", "r", "o", "g", "'", ":", " ", "'">> \o ParserProg \o <<"'", "}">>
  ELSE IF type = "s" THEN ParserProg
  ELSE <<"'">> \o ParserProg \o <<"'">>

\* a text written ahead of the outcome of the rest of the format
WrittenBefore(text, rest) ==
  IF rest.raised # "none" THEN rest
  ELSE [raised |-> "none", text |-> text \o rest.text]

\* t[p..] % dict(prog=ParserProg), as str.__mod__ computes it; avail is the
\* argument the next conversion takes: "dict" (the mapping, before any
\* conversion), "value" (after a key), "none" (already taken)
RECURSIVE FormatFrom(_, _, _)
FormatFrom(t, p, avail) ==
  IF p > Len(t) THEN [raised |-> "none", text |-> << >>]
  ELSE IF t[p] # "%" THEN WrittenBefore(<<t[p]>>, FormatFrom(t, p + 1, avail))
  ELSE
    LET keyed == p + 1 <= Len(t) /\ t[p + 1] = "("
        close == IF keyed THEN KeyClose(t, p + 2, 1) ELSE 0
        k1 == IF keyed THEN close + 1 ELSE p + 1
        av == IF keyed THEN "value" ELSE avail
        k2 == SkipOver(t, k1, {"-", "+", " ", "#", "0"})
        k3 == SkipOver(t, k2, Digits)
        dot == k3 <= Len(t) /\ t[k3] = "."
        k4 == IF dot THEN SkipOver(t, k3 + 1, Digits) ELSE k3
        k5 == IF k4 <= Len(t) /\ t[k4] \in {"h", "l", "L"} THEN k4 + 1 ELSE k4
        width == DecimalOf(SubSeq(t, k2, k3 - 1))
        prec == IF dot THEN DecimalOf(SubSeq(t, k3 + 1, k4 - 1)) ELSE -1
        left == \E k \in k1..(k2 - 1) : t[k] = "-"
        fails(e) == [raised |-> e, text |-> << >>]
    IN
    IF keyed /\ close = 0 THEN fails("ValueError")
    ELSE IF keyed /\ SubSeq(t, p + 2, close - 1) # <<"p", "r", "o", "g">> THEN fails("KeyError")
    ELSE IF k2 > Len(t) THEN fails("ValueError")
    ELSE IF t[k2] = "*" THEN fails("TypeError")
    ELSE IF k3 > Len(t) THEN fails("ValueError")
    ELSE IF dot /\ k3 + 1 > Len(t) THEN fails("ValueError")
    ELSE IF dot /\ t[k3 + 1] = "*" THEN fails("TypeError")
    ELSE IF k5 > Len(t) THEN fails("ValueError")
    ELSE IF t[k5] = "%" /\ k5 = p + 1
      THEN WrittenBefore(<<"%">>, FormatFrom(t, k5 + 1, av))
    ELSE IF av = "none" THEN fails("TypeError")
    ELSE IF t[k5] \in {"s", "r", "a"}
      THEN WrittenBefore(FitField(ConvertedArg(t[k5], av), width, prec, left),
                         FormatFrom(t, k5 + 1, "none"))
    ELSE IF t[k5] \in {"d", "i", "o", "u", "x", "X", "e", "E", "f", "F", "g", "G", "c"}
      THEN fails("TypeError")
    ELSE fails("ValueError")

\* argparse's HelpFormatter: usage % dict(prog=self._prog), on which
\* parser.format_help() of line 982 opens the help text
FormattedUsage == FormatFrom(usage, 1, "dict")

\* argparse's HelpFormatter.format_help: every run of three or more line
\* breaks of the help text is cut to two
RECURSIVE CollapseBreaks(_)
CollapseBreaks(t) ==
  IF t = << >> THEN << >>
  ELSE IF Len(t) >= 3 /\ t[1] = "\n" /\ t[2] = "\n" /\ t[3] = "\n"
    THEN CollapseBreaks(Tail(t))
  ELSE <<t[1]>> \o CollapseBreaks(Tail(t))

\* the help text of line 982 up to the first space below the usage line
HelpUsage ==
  CollapseBreaks(<<"u", "s", "a", "g", "e", ":", " ">> \o FormattedUsage.text \o <<"\n", "\n", "o", "p", "t", "i", "o", "n", "s", ":", "\n", " ">>)

\* re.findall(r"\-\-([^= ]+?)=", t), from position p on
RECURSIVE OptionsIn(_, _)
OptionsIn(t, p) ==
  IF p + 3 > Len(t) THEN { }
  ELSE IF t[p] = "-" /\ t[p + 1] = "-"
    THEN LET q == FirstOf(t, p + 2, {"=", " "}) IN
           IF q <= Len(t) /\ q >= p + 3 /\ t[q] = "="
             THEN {SubSeq(t, p + 2, q - 1)} \cup OptionsIn(t, q + 1)
             ELSE OptionsIn(t, p + 1)
  ELSE OptionsIn(t, p + 1)

\* re.findall(r"\-\-([^= ]+?)\s", t), from position p on
RECURSIVE SwitchesIn(_, _)
SwitchesIn(t, p) ==
  IF p + 3 > Len(t) THEN { }
  ELSE IF t[p] = "-" /\ t[p + 1] = "-"
    THEN LET q == FirstOf(t, p + 3, Whitespace) IN
           IF q <= Len(t) /\ FirstOf(t, p + 2, {"=", " "}) >= q
             THEN {SubSeq(t, p + 2, q - 1)} \cup SwitchesIn(t, q + 1)
             ELSE SwitchesIn(t, p + 1)
  ELSE SwitchesIn(t, p + 1)

\* The parser is argparse's (the optparse import of lines 15-19 fails on the
\* name SUPPRESS, lines 33-36 take over), whose help shows a valued option as
\* "--url URL": below the usage line no long name is followed by '=' in the
\* help text, so the names of line 982 are those the program's own name spells.
longOptions == OptionsIn(HelpUsage, 1)

\* the long names the help text shows followed by white space below the usage
\* line (those that the tokens of this model can name)
HelpSwitches ==
  {<<"u", "r", "l">>, <<"d", "a", "t", "a">>, <<"h", "e", "a", "d", "e", "r", "s">>, <<"t", "h", "r", "e", "a", "d", "s">>, <<"s", "k", "i", "p">>, <<"t", "a", "m", "p", "e", "r">>,
   <<"i", "g", "n", "o", "r", "e", "-", "c", "o", "d", "e">>, <<"b", "a", "t", "c", "h">>, <<"b", "a", "n", "n", "e", "r">>, <<"v", "e", "r", "s", "i", "o", "n">>, <<"h", "e", "l", "p">>, <<"s", "h", "e", "l", "l">>,
   <<"p", "u", "r", "g", "e">>, <<"u", "p", "d", "a", "t", "e">>, <<"w", "i", "z", "a", "r", "d">>, <<"d", "e", "p", "e", "n", "d", "e", "n", "c", "i", "e", "s">>, <<"l", "i", "s", "t", "-", "t", "a", "m", "p", "e", "r", "s">>,
   <<"s", "k", "i", "p", "-", "s", "t", "a", "t", "i", "c">>, <<"d", "i", "s", "a", "b", "l", "e", "-", "c", "o", "l", "o", "r", "i", "n", "g">>, <<"d", "r", "o", "p", "-", "s", "e", "t", "-", "c", "o", "o", "k", "i", "e">>, <<"a", "u", "t", "h", "-", "c", "r", "e", "d">>}

\* line 983
longSwitches == HelpSwitches \cup SwitchesIn(HelpUsage, 1)

\* os.path.isfile: the files that exist
ExistingFiles == {<<"r", "e", "q", ".", "t", "x", "t">>, <<"e", "1", ".", "t", "x", "t">>, <<"e", "2", ".", "t", "x", "t">>}

isfile(value) == value \in ExistingFiles

\* ------------------------------------------------------------ lexical sanitizer

\* a substitution that writes one hyphen for the whole run
DashFixOneHyphen(tok) ==
  (IF LeadRun(tok, DashLookalikes) > 0 THEN <<"-">> ELSE << >>)
    \o SubSeq(tok, LeadRun(tok, DashLookalikes) + 1, Len(tok))

\* line 987: the leading run of dash look-alikes becomes as many '-'
DashFix(tok) ==
  Hyphens(LeadRun(tok, DashLookalikes))
    \o SubSeq(tok, LeadRun(tok, DashLookalikes) + 1, Len(tok))

\* lines 987-990
Sanitize(tok) == StripChars(DashFix(tok), QuotationMarks)

\* a pattern that knows only the scheme
IsBareUrlSchemeOnly(tok) == StartsWith(tok, <<"h", "t", "t", "p">>)

\* line 994: re.search(r"\A(http|www\.|\w[\w.-]+\.\w{2,})", tok)
IsBareUrl(tok) ==
  \/ StartsWith(tok, <<"h", "t", "t", "p">>)
  \/ StartsWith(tok, <<"w", "w", "w", ".">>)
  \/ \E p \in 3..(Len(tok) - 2) :
       /\ tok[1] \in WordChars
       /\ \A q \in 2..(p - 1) : tok[q] \in WordChars \cup {".", "-"}
       /\ tok[p] = "."
       /\ tok[p + 1] \in WordChars
       /\ tok[p + 2] \in WordChars

\* (tok.split('=', 1)[-1].strip() or ' ')[0]
ValueFirstChar(tok) ==
  IF StripChars(AfterFirstEq(tok), Whitespace) = << >>
  THEN " "
  ELSE StripChars(AfterFirstEq(tok), Whitespace)[1]

\* line 996
IsRichQuoted(tok) ==
  /\ Len(tok) > 1
  /\ ValueFirstChar(tok) \in RichQuoteRange
  /\ tok[Len(tok)] \in RichQuoteRange

\* a comma test on the wrong side of the '='
HasRichCommaInName(tok) == Len(tok) > 1 /\ HasChar(BeforeFirstEq(tok), FullWidthComma)

\* line 999
HasRichComma(tok) == Len(tok) > 1 /\ HasChar(AfterFirstEq(tok), FullWidthComma)

\* line 1002: re.search(r"\A-\w=.+", tok)
IsShortWithEq(tok) ==
  /\ Len(tok) >= 4
  /\ tok[1] = "-"
  /\ tok[2] \in WordChars
  /\ tok[3] = "="
  /\ tok[4] # "\n"

\* line 1005: re.search(r"\A-\w{3,}", tok)
IsOneHyphenWord(tok) ==
  /\ Len(tok) >= 4
  /\ tok[1] = "-"
  /\ \A k \in 2..4 : tok[k] \in WordChars

\* a catalogue test on the whole token, value included
IsKnownLongWithValue(tok) ==
  StripChars(tok, {"-"}) \in (longOptions \cup longSwitches)

\* line 1006: tok.strip('-').split('=')[0] in (longOptions | longSwitches)
IsKnownLong(tok) ==
  BeforeFirstEq(StripChars(tok, {"-"})) \in (longOptions \cup longSwitches)

\* line 1022: re.search(r"\A--tamper[^=\s]", tok)
IsTamperJunk(tok) ==
  /\ StartsWith(tok, <<"-", "-", "t", "a", "m", "p", "e", "r">>)
  /\ Len(tok) > 8
  /\ tok[9] \notin ({"="} \cup Whitespace)

\* line 1024: re.search(r"\A(--(tamper|ignore-code|skip))(?!-)", tok)
IsMultiValued(tok) ==
  \E p \in {<<"-", "-", "t", "a", "m", "p", "e", "r">>, <<"-", "-", "i", "g", "n", "o", "r", "e", "-", "c", "o", "d", "e">>, <<"-", "-", "s", "k", "i", "p">>} :
    /\ StartsWith(tok, p)
    /\ (Len(tok) = Len(p) \/ tok[Len(p) + 1] # "-")

\* line 1025: re.search(r"\-?\-(\w+)\b", tok).group(1), for a token that begins
\* with two hyphens and a word character: the word that follows the hyphens
AggregationKey(tok) ==
  SubSeq(tok, 3, 2 + LeadRun(SubSeq(tok, 3, Len(tok)), WordChars))

\* line 1034
IsHeaderOption(tok) ==
  \/ tok \in {<<"-", "H">>, <<"-", "-", "h", "e", "a", "d", "e", "r">>}
  \/ StartsWith(tok, <<"-", "H", "=">>)
  \/ StartsWith(tok, <<"-", "-", "h", "e", "a", "d", "e", "r", "=">>)

\* re.match(r"\A\d+!\Z", tok)
IsBangNumber(tok) ==
  /\ Len(tok) >= 2
  /\ tok[Len(tok)] = "!"
  /\ \A k \in 1..(Len(tok) - 1) : tok[k] \in Digits

\* re.match(r"\A--threads.+\d+!\Z", tok)
IsThreadsBang(tok) ==
  /\ StartsWith(tok, <<"-", "-", "t", "h", "r", "e", "a", "d", "s">>)
  /\ Len(tok) >= 12
  /\ tok[Len(tok)] = "!"
  /\ tok[Len(tok) - 1] \in Digits
  /\ \A k \in 10..(Len(tok) - 1) : tok[k] # "\n"

\* re.search(r"\A-{1,2}\w", tok)
IsOptionLike(tok) ==
  \/ Len(tok) >= 2 /\ tok[1] = "-" /\ tok[2] \in WordChars
  \/ Len(tok) >= 3 /\ tok[1] = "-" /\ tok[2] = "-" /\ tok[3] \in WordChars

\* re.search(r"\A\-v+\Z", tok)
IsVerbosity(tok) ==
  Len(tok) >= 2 /\ tok[1] = "-" /\ \A k \in 2..Len(tok) : tok[k] = "v"

\* tok.count('v')
CountV(tok) == Cardinality({k \in 1..Len(tok) : tok[k] = "v"})

\* ---------------------------------------------------------------- the rewriter

\* auxIndexes.get(key, None) when the key has no anchor
None == -1

\* a[k] of Python, a negative k counting from the end
PyAt(a, k) == IF k < 0 THEN a[Len(a) + k + 1] ELSE a[k + 1]

Put(a, k, tok) == [a EXCEPT ![k + 1] = tok]

Max(x, y) == IF x >= y THEN x ELSE y

\* a lookup that never finds the anchor
AuxGetForgetful(aux, key) == None

\* auxIndexes is a set of entries [key, index]
AuxGet(aux, key) ==
  IF \E e \in aux : e.key = key
  THEN (CHOOSE e \in aux : e.key = key).index
  ELSE None

AuxPut(aux, key, index) ==
  {e \in aux : e.key # key} \cup {[key |-> key, index |-> index]}

\* argv[i + 1] when it is there and does not start with a hyphen
HasBareValue(a, i) == i + 1 < Len(a) /\ ~StartsWith(At(a, i + 1), <<"-">>)

\* line 1028: where the first occurrence keeps the value
AnchorOf(a, i) ==
  IF HasChar(At(a, i), "=") THEN i ELSE IF HasBareValue(a, i) THEN i + 1 ELSE None

\* line 1032: the value a later occurrence brings
LaterValue(a, i) ==
  IF HasChar(At(a, i), "=")
  THEN SecondEqField(At(a, i))
  ELSE IF HasBareValue(a, i) THEN At(a, i + 1) ELSE << >>

\* an aggregation that removes the later occurrence from the sequence
AggregateDeleting(s, i) ==
  LET key == AggregationKey(At(s.argv, i))
      index == AuxGet(s.auxIndexes, key)
  IN  IF index = None
      THEN [s EXCEPT !.auxIndexes = AuxPut(@, key, AnchorOf(s.argv, i))]
      ELSE LET b == Put(s.argv, index, Cat3(PyAt(s.argv, index), <<",">>, LaterValue(s.argv, i)))
           IN  [s EXCEPT !.argv = SubSeq(b, 1, i) \o SubSeq(b, i + 2, Len(b))]

\* lines 1025-1033, on the state s of the pass (s.argv[i] already sanitized)
Aggregate(s, i) ==
  LET key == AggregationKey(At(s.argv, i))
      index == AuxGet(s.auxIndexes, key)
  IN  IF index = None
      THEN [s EXCEPT !.auxIndexes = AuxPut(@, key, AnchorOf(s.argv, i))]
      ELSE [s EXCEPT !.argv =
              Put(Put(@, index, Cat3(PyAt(@, index), <<",">>, LaterValue(@, i))),
                  i, << >>)]

\* lines 1035-1038
CaptureHeader(s, i) ==
  IF HasChar(At(s.argv, i), "=")
  THEN [s EXCEPT !.extraHeaders = Append(@, AfterFirstEq(At(s.argv, i)))]
  ELSE IF i + 1 < Len(s.argv)
       THEN [s EXCEPT !.extraHeaders = Append(@, At(s.argv, i + 1))]
       ELSE s

\* a loader that passes over a token that is no file instead of stopping at it
RECURSIVE LoadRequestFilesNoBreak(_, _, _)
LoadRequestFilesNoBreak(a, i, j) ==
  IF j >= Len(a) THEN a
  ELSE IF isfile(At(a, j))
  THEN LoadRequestFilesNoBreak(
         Put(Put(a, i + 1, Cat3(At(a, i + 1), <<",">>, At(a, j))), j, << >>),
         i, j + 1)
  ELSE LoadRequestFilesNoBreak(a, i, j + 1)

\* lines 1044-1050: the loop over j, from j on
RECURSIVE LoadRequestFiles(_, _, _)
LoadRequestFiles(a, i, j) ==
  IF j < Len(a) /\ isfile(At(a, j))
  THEN LoadRequestFiles(
         Put(Put(a, i + 1, Cat3(At(a, i + 1), <<",">>, At(a, j))), j, << >>),
         i, j + 1)
  ELSE a

\* a test that takes the flag for one whatever follows
SilentIsFlagAlways(a, i) == TRUE

\* line 1013
SilentIsFlag(a, i) ==
  \/ i + 1 < Len(a) /\ StartsWith(At(a, i + 1), <<"-">>)
  \/ i + 1 = Len(a)

\* line 1051
IsThreadOverride(a, i) ==
  \/ IsBangNumber(At(a, i)) /\ At(a, Max(0, i - 1)) = <<"-", "-", "t", "h", "r", "e", "a", "d", "s">>
  \/ IsThreadsBang(At(a, i))

\* line 1068
IsMissingHyphen(a, i) ==
  /\ HasChar(At(a, i), "=")
  /\ ~StartsWith(At(a, i), <<"-">>)
  /\ BeforeFirstEq(At(a, i)) \in longOptions
  /\ ~IsOptionLike(PyAt(a, i - 1))

\* s.replace(old, new, 1) for s that starts with old
ReplacePrefix(s, old, new) == new \o SubSeq(s, Len(old) + 1, Len(s))

\* a diagnostic that does not stop the pass
FatalPrintsOnly(s, msg) == [s EXCEPT !.out = Append(@, msg)]

\* dataToStdout(...) or print(...), then raise SystemExit
Fatal(s, msg) == [s EXCEPT !.out = Append(@, msg), !.raised = "SystemExit"]

\* lines 992-1070: the rule chain on the sanitized token at position i
ApplyRules(s, i) ==
  LET a == s.argv
      tok == At(s.argv, i)
  IN
  IF tok = <<"-", "h", "h">> THEN [s EXCEPT !.argv = Put(a, i, <<"-", "h">>)]
  ELSE IF i = 1 /\ IsBareUrl(tok) THEN [s EXCEPT !.argv = Put(a, i, <<"-", "-", "u", "r", "l", "=">> \o tok)]
  ELSE IF IsRichQuoted(tok) THEN Fatal(s, "illegal quote")
  ELSE IF HasRichComma(tok) THEN Fatal(s, "illegal comma")
  ELSE IF IsShortWithEq(tok) THEN Fatal(s, "illegal short option")
  ELSE IF IsOneHyphenWord(tok)
    THEN IF IsKnownLong(tok) THEN [s EXCEPT !.argv = Put(a, i, <<"-">> \o tok)] ELSE s
  ELSE IF tok \in IGNORED_OPTIONS THEN [s EXCEPT !.argv = Put(a, i, << >>)]
  ELSE IF tok \in DEPRECATED_OPTIONS THEN [s EXCEPT !.argv = Put(a, i, << >>)]
  ELSE IF tok \in {<<"-", "s">>, <<"-", "-", "s", "i", "l", "e", "n", "t">>}
    THEN IF SilentIsFlag(a, i)
         THEN [s EXCEPT !.argv = Put(a, i, << >>), !.verbose = 0]
         ELSE s
  ELSE IF StartsWith(tok, <<"-", "-", "d", "a", "t", "a", "-", "r", "a", "w">>)
    THEN [s EXCEPT !.argv = Put(a, i, ReplacePrefix(tok, <<"-", "-", "d", "a", "t", "a", "-", "r", "a", "w">>, <<"-", "-", "d", "a", "t", "a">>))]
  ELSE IF StartsWith(tok, <<"-", "-", "a", "u", "t", "h", "-", "c", "r", "e", "d", "s">>)
    THEN [s EXCEPT !.argv = Put(a, i, ReplacePrefix(tok, <<"-", "-", "a", "u", "t", "h", "-", "c", "r", "e", "d", "s">>, <<"-", "-", "a", "u", "t", "h", "-", "c", "r", "e", "d">>))]
  ELSE IF StartsWith(tok, <<"-", "-", "d", "r", "o", "p", "-", "c", "o", "o", "k", "i", "e">>)
    THEN [s EXCEPT !.argv = Put(a, i, ReplacePrefix(tok, <<"-", "-", "d", "r", "o", "p", "-", "c", "o", "o", "k", "i", "e">>, <<"-", "-", "d", "r", "o", "p", "-", "s", "e", "t", "-", "c", "o", "o", "k", "i", "e">>))]
  ELSE IF IsTamperJunk(tok) THEN [s EXCEPT !.argv = Put(a, i, << >>)]
  ELSE IF IsMultiValued(tok) THEN Aggregate(s, i)
  ELSE IF IsHeaderOption(tok) THEN CaptureHeader(s, i)
  ELSE IF tok = <<"-", "-", "d", "e", "p", "s">> THEN [s EXCEPT !.argv = Put(a, i, <<"-", "-", "d", "e", "p", "e", "n", "d", "e", "n", "c", "i", "e", "s">>)]
  ELSE IF tok = <<"-", "-", "d", "i", "s", "a", "b", "l", "e", "-", "c", "o", "l", "o", "u", "r", "i", "n", "g">>
    THEN [s EXCEPT !.argv = Put(a, i, <<"-", "-", "d", "i", "s", "a", "b", "l", "e", "-", "c", "o", "l", "o", "r", "i", "n", "g">>)]
  ELSE IF tok = <<"-", "r">> THEN [s EXCEPT !.argv = LoadRequestFiles(a, i, i + 2)]
  ELSE IF IsThreadOverride(a, i)
    THEN [s EXCEPT !.argv = Put(a, i, SubSeq(tok, 1, Len(tok) - 1)),
                   !.skipThreadCheck = TRUE]
  ELSE IF tok = <<"-", "-", "v", "e", "r", "s", "i", "o", "n">> THEN Fatal(s, "version")
  ELSE IF tok \in {<<"-", "h">>, <<"-", "-", "h", "e", "l", "p">>} THEN [s EXCEPT !.advancedHelp = FALSE]
  ELSE IF IsMissingHyphen(a, i) THEN Fatal(s, "missing hyphen")
  ELSE s

\* lines 1044-1050: the positions the loader reads (argv[j]) and writes
\* (argv[i + 1], argv[j]), from j on
RECURSIVE LoaderAccesses(_, _, _)
LoaderAccesses(a, i, j) ==
  IF j >= Len(a) THEN { }
  ELSE IF isfile(At(a, j)) THEN {i + 1, j} \cup LoaderAccesses(a, i, j + 1)
  ELSE {j}

\* lines 1028 and 1032: the index of the token after an occurrence in bare form
BareValueAccess(a, i) ==
  IF HasChar(At(a, i), "=") THEN { } ELSE IF i + 1 < Len(a) THEN {i + 1} ELSE { }

\* lines 992-1070: the indexes other than i, as Python is given them, at which
\* the iteration on the sanitized token at position i reads or writes argv; an
\* anchor that is the position i itself (line 1032) is not a neighbour
NeighbourAccesses(s, i) ==
  LET a == s.argv
      tok == At(s.argv, i)
  IN
  IF tok = <<"-", "h", "h">> THEN { }
  ELSE IF i = 1 /\ IsBareUrl(tok) THEN { }
  ELSE IF IsRichQuoted(tok) \/ HasRichComma(tok) \/ IsShortWithEq(tok) THEN { }
  ELSE IF IsOneHyphenWord(tok) THEN { }
  ELSE IF tok \in IGNORED_OPTIONS \cup DEPRECATED_OPTIONS THEN { }
  ELSE IF tok \in {<<"-", "s">>, <<"-", "-", "s", "i", "l", "e", "n", "t">>}
    THEN IF Len(a) > i + 1 THEN {i + 1} ELSE { }
  ELSE IF \/ StartsWith(tok, <<"-", "-", "d", "a", "t", "a", "-", "r", "a", "w">>) \/ StartsWith(tok, <<"-", "-", "a", "u", "t", "h", "-", "c", "r", "e", "d", "s">>)
          \/ StartsWith(tok, <<"-", "-", "d", "r", "o", "p", "-", "c", "o", "o", "k", "i", "e">>) \/ IsTamperJunk(tok) THEN { }
  ELSE IF IsMultiValued(tok)
    THEN IF AuxGet(s.auxIndexes, AggregationKey(tok)) = None
         THEN BareValueAccess(a, i)
         ELSE ({AuxGet(s.auxIndexes, AggregationKey(tok))} \ {i}) \cup BareValueAccess(a, i)
  ELSE IF IsHeaderOption(tok) THEN BareValueAccess(a, i)
  ELSE IF tok \in {<<"-", "-", "d", "e", "p", "s">>, <<"-", "-", "d", "i", "s", "a", "b", "l", "e", "-", "c", "o", "l", "o", "u", "r", "i", "n", "g">>} THEN { }
  ELSE IF tok = <<"-", "r">> THEN LoaderAccesses(a, i, i + 2)
  ELSE (IF IsBangNumber(tok) THEN {Max(0, i - 1)} \ {i} ELSE { })
       \cup (IF /\ ~IsThreadOverride(a, i)
                /\ tok \notin {<<"-", "-", "v", "e", "r", "s", "i", "o", "n">>, <<"-", "h">>, <<"-", "-", "h", "e", "l", "p">>}
                /\ HasChar(tok, "=") /\ ~StartsWith(tok, <<"-">>)
                /\ BeforeFirstEq(tok) \in longOptions
             THEN {i - 1} ELSE { })

\* an iteration that runs the rule chain again on what the chain produced
RewriteTokenTwice(s, i) ==
  LET once == ApplyRules([s EXCEPT !.argv = Put(@, i, Sanitize(At(@, i)))], i) IN
    IF once.raised # "none" THEN once ELSE ApplyRules(once, i)

\* lines 985-1070: one iteration of the pass, on the token at position i
RewriteToken(s, i) ==
  ApplyRules([s EXCEPT !.argv = Put(@, i, Sanitize(At(@, i)))], i)

\* -------------------------------------------------------- the interactive shell

\* the white space of shlex
ShlexWhitespace == {" ", "\t", "\r", "\n"}

\* shlex.split(command): shlex.read_token in POSIX mode with whitespace_split,
\* from position p (from 1) in state st ("ws" between words, "a" in a word, "dq"
\* and "sq" in quotes, "esc" after a backslash, back is the state to return to);
\* tk is the word so far, quoted whether it had a quote, acc the words so far
RECURSIVE ShlexFrom(_, _, _, _, _, _, _)
ShlexFrom(line, p, st, back, tk, quoted, acc) ==
  LET emit == IF tk # << >> \/ quoted THEN Append(acc, tk) ELSE acc
      c == line[p]
  IN
  IF p > Len(line)
  THEN IF st \in {"dq", "sq", "esc"}
       THEN [ok |-> FALSE, tokens |-> << >>]
       ELSE [ok |-> TRUE, tokens |-> emit]
  ELSE IF st = "ws"
  THEN IF c \in ShlexWhitespace THEN ShlexFrom(line, p + 1, "ws", back, << >>, FALSE, acc)
       ELSE IF c = "\\" THEN ShlexFrom(line, p + 1, "esc", "a", tk, quoted, acc)
       ELSE IF c = "\"" THEN ShlexFrom(line, p + 1, "dq", back, tk, TRUE, acc)
       ELSE IF c = "'" THEN ShlexFrom(line, p + 1, "sq", back, tk, TRUE, acc)
       ELSE ShlexFrom(line, p + 1, "a", back, <<c>>, quoted, acc)
  ELSE IF st = "a"
  THEN IF c \in ShlexWhitespace THEN ShlexFrom(line, p + 1, "ws", back, << >>, FALSE, emit)
       ELSE IF c = "\"" THEN ShlexFrom(line, p + 1, "dq", back, tk, TRUE, acc)
       ELSE IF c = "'" THEN ShlexFrom(line, p + 1, "sq", back, tk, TRUE, acc)
       ELSE IF c = "\\" THEN ShlexFrom(line, p + 1, "esc", "a", tk, quoted, acc)
       ELSE ShlexFrom(line, p + 1, "a", back, Append(tk, c), quoted, acc)
  ELSE IF st = "dq"
  THEN IF c = "\"" THEN ShlexFrom(line, p + 1, "a", back, tk, quoted, acc)
       ELSE IF c = "\\" THEN ShlexFrom(line, p + 1, "esc", "dq", tk, quoted, acc)
       ELSE ShlexFrom(line, p + 1, "dq", back, Append(tk, c), quoted, acc)
  ELSE IF st = "sq"
  THEN IF c = "'" THEN ShlexFrom(line, p + 1, "a", back, tk, quoted, acc)
       ELSE ShlexFrom(line, p + 1, "sq", back, Append(tk, c), quoted, acc)
  ELSE \* st = "esc"
       IF back = "dq" /\ c # "\\" /\ c # "\""
       THEN ShlexFrom(line, p + 1, back, back, tk \o <<"\\", c>>, quoted, acc)
       ELSE ShlexFrom(line, p + 1, back, back, Append(tk, c), quoted, acc)

\* a split that accepts a line whose quote is never closed
ShlexSplitLenient(line) ==
  [ok |-> TRUE, tokens |-> ShlexFrom(line, 1, "ws", "a", << >>, FALSE, << >>).tokens]

\* a split that leaves a flag and the word after it in one token
ShlexSplitJoined(line) ==
  LET r == ShlexFrom(line, 1, "ws", "a", << >>, FALSE, << >>) IN
    [ok |-> r.ok,
     tokens |-> IF Len(r.tokens) >= 2
                THEN <<r.tokens[1] \o <<" ">> \o r.tokens[2]>> \o Tail(Tail(r.tokens))
                ELSE r.tokens]

ShlexSplit(line) == ShlexFrom(line, 1, "ws", "a", << >>, FALSE, << >>)

\* line 957: re.sub(r"(?i)\Anew\s+", "", command)
StripNew(cmd) ==
  IF /\ Len(cmd) >= 4
     /\ LowerCase(SubSeq(cmd, 1, 3)) = <<"n", "e", "w">>
     /\ cmd[4] \in Whitespace
  THEN SubSeq(cmd, 4 + LeadRun(SubSeq(cmd, 4, Len(cmd)), Whitespace), Len(cmd))
  ELSE cmd

\* lines 952 and 957: what the loop classifies
ReadCommand(text) == StripNew(StripChars(text, Whitespace))

\* a list of quit commands that lacks "q"
QuitCommandsWithoutQ == {<<"x">>, <<"e", "x", "i", "t">>, <<"q", "u", "i", "t">>}

QuitCommands == {<<"x">>, <<"q">>, <<"e", "x", "i", "t">>, <<"q", "u", "i", "t">>}

\* a help test that knows only the word
IsHelpQueryWordOnly(cmd) == LowerCase(cmd) = <<"h", "e", "l", "p">>

\* line 968: re.search(r"(?i)\A(\?|help)\Z", command)
IsHelpQuery(cmd) == LowerCase(cmd) \in {<<"?">>, <<"h", "e", "l", "p">>}

\* ------------------------------------------------------------------ the state

VARIABLES
  pc,               \* where cmdLineParser is
  argv,             \* the argument sequence
  i,                \* the position the pass is at (line 985)
  auxIndexes,       \* line 919
  extraHeaders,     \* line 918
  advancedHelp,     \* line 917
  verbose,          \* conf.verbose, None while unset
  skipThreadCheck,  \* conf.skipThreadCheck
  command,          \* the line the shell accepted
  prompts,          \* how many lines the shell has read
  vit,              \* the position of the iterator of line 1072
  parserArgv,       \* the sequences handed to the option parser, in order
  args,             \* the options structure
  expanded,         \* the values handed to expandMnemonics, in order
  out,              \* the messages written and the history calls made, in order
  exc,              \* the exception that left cmdLineParser, "none" if none
  raw,              \* the sequence as the pass found it
  dashFixed,        \* the token line 987 assigned last
  parsed,           \* what the option parser answers for this command line
  env               \* the platform and standard input of this process

vars ==
  <<pc, argv, i, auxIndexes, extraHeaders, advancedHelp, verbose, skipThreadCheck,
    command, prompts, vit, parserArgv, args, expanded, out, exc, raw, dashFixed,
    parsed, env, usage>>

\* the destinations line 1109 tests, url aside
TargetDests ==
  {"direct", "logFile", "bulkFile", "googleDork", "configFile",
   "requestFile", "updateAll", "smokeTest", "vulnTest", "wizard", "dependencies",
   "purge", "listTampers", "hashFile"}

\* An options structure: set holds the destinations (other than url) with a
\* true value; url and headers hold << >> for None and <<text>> for a text.
MakeArgs(set, url, headers) ==
  [set |-> set, url |-> url, headers |-> headers, stdinPipe |-> FALSE]

NoArgs == MakeArgs({}, << >>, << >>)

\* the truth value of an optional text
Truthy(opt) == opt # << >> /\ opt[1] # << >>

\* the state the pass works on
PassState ==
  [argv |-> argv, auxIndexes |-> auxIndexes, extraHeaders |-> extraHeaders,
   advancedHelp |-> advancedHelp, verbose |-> verbose,
   skipThreadCheck |-> skipThreadCheck, out |-> out, raised |-> "none"]

\* ---------------------------------------------------------------- the actions

\* a dispatch that opens the shell whether or not it was asked for
StartShellUnasked ==
  /\ pc = "start"
  /\ IF <<"-", "-", "g", "u", "i">> \in {argv[k] : k \in 1..Len(argv)}
     THEN pc' = "done" /\ exc' = "SqlmapSilentQuitException" /\ raw' = raw
          /\ usage' = usage
     ELSE pc' = "prompt" /\ exc' = exc /\ raw' = raw /\ usage' = << >>
  /\ UNCHANGED <<argv, i, auxIndexes, extraHeaders, advancedHelp, verbose,
                 skipThreadCheck, command, prompts, vit, parserArgv, args,
                 expanded, out, parsed, env,
                 dashFixed>>

\* lines 928-944, and lines 982-983 when no shell is asked for: the shell
\* branch empties the parser's usage (line 938); parser.format_help() of line
\* 982 formats the usage, and what that raises leaves cmdLineParser (a
\* TypeError through the handler of line 1116, whose parser.error(ex) formats
\* the usage again)
Start ==
  /\ pc = "start"
  /\ IF <<"-", "-", "g", "u", "i">> \in {argv[k] : k \in 1..Len(argv)}
     THEN pc' = "done" /\ exc' = "SqlmapSilentQuitException" /\ raw' = raw
          /\ usage' = usage
     ELSE IF <<"-", "-", "s", "h", "e", "l", "l">> \in {argv[k] : k \in 1..Len(argv)}
     THEN pc' = "prompt" /\ exc' = exc /\ raw' = raw /\ usage' = << >>
     ELSE IF FormattedUsage.raised # "none"
     THEN pc' = "done" /\ exc' = FormattedUsage.raised /\ raw' = raw
          /\ usage' = usage
     ELSE pc' = "rewrite" /\ exc' = exc /\ raw' = argv /\ usage' = usage
  /\ UNCHANGED <<argv, i, auxIndexes, extraHeaders, advancedHelp, verbose,
                 skipThreadCheck, command, prompts, vit, parserArgv, args,
                 expanded, out, parsed, env,
                 dashFixed>>

\* lines 950-955: the read is interrupted or meets the end of input
ShellInterrupt ==
  /\ pc = "prompt"
  /\ out' = Append(out, "newline")
  /\ exc' = "SqlmapShellQuitException"
  /\ pc' = "done"
  /\ prompts' = prompts + 1
  /\ UNCHANGED <<argv, i, auxIndexes, extraHeaders, advancedHelp, verbose,
                 skipThreadCheck, command, vit, parserArgv, args, expanded, raw,
                 parsed, env, usage,
                 dashFixed>>

\* lines 946-974: one line is read and classified
ShellRead(text) ==
  LET cmd == ReadCommand(text) IN
  /\ pc = "prompt"
  /\ prompts' = prompts + 1
  /\ command' = cmd
  /\ IF cmd = << >>
     THEN /\ prompts < MaxPrompts
          /\ pc' = "prompt" /\ out' = out /\ exc' = exc
     ELSE IF LowerCase(cmd) = <<"c", "l", "e", "a", "r">>
     THEN /\ prompts < MaxPrompts
          /\ pc' = "prompt" /\ exc' = exc
          /\ out' = out \o <<"clearHistory", "history cleared", "saveHistory">>
     ELSE IF LowerCase(cmd) \in QuitCommands
     THEN pc' = "done" /\ exc' = "SqlmapShellQuitException" /\ out' = out
     ELSE IF cmd[1] # "-"
     THEN /\ prompts < MaxPrompts
          /\ pc' = "prompt" /\ exc' = exc
          /\ out' = IF IsHelpQuery(cmd)
                    THEN Append(out, "valid example")
                    ELSE out \o <<"invalid option", "valid example">>
     ELSE /\ pc' = "tokenize" /\ exc' = exc
          /\ out' = out \o <<"saveHistory", "loadHistory">>
  /\ UNCHANGED <<argv, i, auxIndexes, extraHeaders, advancedHelp, verbose,
                 skipThreadCheck, vit, parserArgv, args, expanded, raw, parsed, env, usage,
                 dashFixed>>

\* a tokenizer that puts the typed tokens before the original ones
TokenizePrepending ==
  /\ pc = "tokenize"
  /\ IF ShlexSplit(command).ok
     THEN /\ argv' = ShlexSplit(command).tokens \o argv
          /\ raw' = ShlexSplit(command).tokens \o argv
          /\ pc' = "rewrite" /\ exc' = exc
     ELSE /\ argv' = argv /\ raw' = raw
          /\ pc' = "done" /\ exc' = "SqlmapSyntaxException"
  /\ UNCHANGED <<i, auxIndexes, extraHeaders, advancedHelp, verbose,
                 skipThreadCheck, command, prompts, vit, parserArgv, args,
                 expanded, out, parsed, env, usage,
                 dashFixed>>

\* lines 976-983
Tokenize ==
  /\ pc = "tokenize"
  /\ IF ShlexSplit(command).ok /\ FormattedUsage.raised # "none"
     THEN /\ argv' = argv \o ShlexSplit(command).tokens /\ raw' = raw
          /\ pc' = "done" /\ exc' = FormattedUsage.raised
     ELSE IF ShlexSplit(command).ok
     THEN /\ argv' = argv \o ShlexSplit(command).tokens
          /\ raw' = argv \o ShlexSplit(command).tokens
          /\ pc' = "rewrite" /\ exc' = exc
     ELSE /\ argv' = argv /\ raw' = raw
          /\ pc' = "done" /\ exc' = "SqlmapSyntaxException"
  /\ UNCHANGED <<i, auxIndexes, extraHeaders, advancedHelp, verbose,
                 skipThreadCheck, command, prompts, vit, parserArgv, args,
                 expanded, out, parsed, env, usage,
                 dashFixed>>

\* lines 985-1070: one iteration of the pass
Rewrite ==
  /\ pc = "rewrite"
  /\ i < Len(argv)
  /\ LET s == RewriteToken(PassState, i) IN
       /\ argv' = s.argv
       /\ auxIndexes' = s.auxIndexes
       /\ extraHeaders' = s.extraHeaders
       /\ advancedHelp' = s.advancedHelp
       /\ verbose' = s.verbose
       /\ skipThreadCheck' = s.skipThreadCheck
       /\ out' = s.out
       /\ dashFixed' = DashFix(At(argv, i))
       /\ IF s.raised # "none"
          THEN pc' = "except" /\ exc' = s.raised /\ i' = i
          ELSE /\ exc' = exc /\ i' = i + 1
               /\ pc' = IF i + 1 = Len(argv) THEN "verbosity" ELSE "rewrite"
  /\ UNCHANGED <<command, prompts, vit, parserArgv, args, expanded, raw, parsed, env, usage>>

\* the first position at or after from that holds a verbosity token, None if none
NextVerbosity(a, from) ==
  IF \E k \in from..(Len(a) - 1) : IsVerbosity(At(a, k))
  THEN CHOOSE k \in from..(Len(a) - 1) :
         IsVerbosity(At(a, k)) /\ \A j \in from..(k - 1) : ~IsVerbosity(At(a, j))
  ELSE None

\* a.index(tok), for a that holds tok
IndexOf(a, tok) ==
  CHOOSE k \in 0..(Len(a) - 1) : At(a, k) = tok /\ \A j \in 0..(k - 1) : At(a, j) # tok

\* del a[k]
Delete(a, k) == SubSeq(a, 1, k) \o SubSeq(a, k + 2, Len(a))

\* line 1074
IsStandaloneVerbosity(a, p) == p = Len(a) - 1 \/ ~IsDigits(At(a, p + 1))

\* a verbosity loop that leaves a level that is already set
VerbosityStepKeepingLevel ==
  /\ pc = "verbosity"
  /\ IF NextVerbosity(argv, vit) = None
     THEN pc' = "parse" /\ UNCHANGED <<argv, verbose, vit>>
     ELSE LET m == NextVerbosity(argv, vit)
              p == IndexOf(argv, At(argv, m))
          IN  /\ pc' = pc
              /\ vit' = m + 1
              /\ IF IsStandaloneVerbosity(argv, p)
                 THEN /\ verbose' = IF verbose = None THEN CountV(At(argv, m)) ELSE verbose
                      /\ argv' = Delete(argv, p)
                 ELSE UNCHANGED <<argv, verbose>>
  /\ UNCHANGED <<i, auxIndexes, extraHeaders, advancedHelp, skipThreadCheck,
                 command, prompts, parserArgv, args, expanded, out, exc, raw,
                 parsed, env, usage,
                 dashFixed>>

\* lines 1072-1078: one step of the generator and the body on what it yields;
\* the generator reads the list that the body shortens
VerbosityStep ==
  /\ pc = "verbosity"
  /\ IF NextVerbosity(argv, vit) = None
     THEN pc' = "parse" /\ UNCHANGED <<argv, verbose, vit>>
     ELSE LET m == NextVerbosity(argv, vit)
              p == IndexOf(argv, At(argv, m))
          IN  /\ pc' = pc
              /\ vit' = m + 1
              /\ IF IsStandaloneVerbosity(argv, p)
                 THEN verbose' = CountV(At(argv, m)) /\ argv' = Delete(argv, p)
                 ELSE UNCHANGED <<argv, verbose>>
  /\ UNCHANGED <<i, auxIndexes, extraHeaders, advancedHelp, skipThreadCheck,
                 command, prompts, parserArgv, args, expanded, out, exc, raw,
                 parsed, env, usage,
                 dashFixed>>

\* lines 1080-1088: the option parser takes the sequence and answers
Parse ==
  /\ pc = "parse"
  /\ parserArgv' = Append(parserArgv, argv)
  /\ IF parsed.raises = "UnicodeEncodeError"
     THEN /\ pc' = "except" /\ exc' = "SystemExit" /\ args' = args
          /\ out' = Append(out, "encode error")
     ELSE IF parsed.raises # "none"
     THEN pc' = "except" /\ exc' = parsed.raises /\ args' = args /\ out' = out
     ELSE IF parsed.exits
     THEN /\ pc' = "except" /\ exc' = "SystemExit" /\ args' = args
          /\ out' = IF <<"-", "h">> \in {argv[k] : k \in 1..Len(argv)} /\ ~advancedHelp
                    THEN Append(out, "hh hint")
                    ELSE out
     ELSE pc' = "headers" /\ exc' = exc /\ args' = parsed.args /\ out' = out
  /\ UNCHANGED <<argv, i, auxIndexes, extraHeaders, advancedHelp, verbose,
                 skipThreadCheck, command, prompts, vit, expanded, raw, parsed, env, usage,
                 dashFixed>>

\* delimiter.join(list)
RECURSIVE Join(_, _)
Join(list, delimiter) ==
  IF list = << >> THEN << >>
  ELSE IF Len(list) = 1 THEN list[1]
  ELSE Cat3(list[1], delimiter, Join(Tail(list), delimiter))

EscapedNewline == <<"\\", "n">>

\* a merge that overwrites the bulk value
MergedHeadersOverwriting(headers, extra) == Join(extra, <<"\n">>)

\* lines 1091-1094
MergedHeaders(headers, extra) ==
  LET bulk == IF Truthy(headers) THEN headers[1] ELSE << >>
      delimiter == IF Contains(bulk, EscapedNewline) THEN EscapedNewline ELSE <<"\n">>
  IN  Cat3(bulk, delimiter, Join(extra, delimiter))

\* lines 1090-1094
MergeHeaders ==
  /\ pc = "headers"
  /\ pc' = "mnemonics"
  /\ args' = IF extraHeaders # << >>
             THEN [args EXCEPT !.headers = <<MergedHeaders(@, extraHeaders)>>]
             ELSE args
  /\ UNCHANGED <<argv, i, auxIndexes, extraHeaders, advancedHelp, verbose,
                 skipThreadCheck, command, prompts, vit, parserArgv, expanded,
                 out, exc, raw, parsed, env, usage,
                 dashFixed>>

\* a loop that stops at the first "-z"
RECURSIVE MnemonicValuesFirstOnly(_, _)
MnemonicValuesFirstOnly(a, k) ==
  IF k >= Len(a) - 1 THEN << >>
  ELSE IF At(a, k) = <<"-", "z">>
       THEN <<At(a, k + 1)>>
       ELSE MnemonicValuesFirstOnly(a, k + 1)

\* lines 1097-1099: the values that follow a "-z", in order
RECURSIVE MnemonicValues(_, _)
MnemonicValues(a, k) ==
  IF k >= Len(a) - 1 THEN << >>
  ELSE IF At(a, k) = <<"-", "z">>
       THEN <<At(a, k + 1)>> \o MnemonicValues(a, k + 1)
       ELSE MnemonicValues(a, k + 1)

\* lib.core.common.expandMnemonics: the destinations a mnemonic value sets
MnemonicDests(value) ==
  IF value = <<"w", "i", "z">> THEN {"wizard"} ELSE IF value = <<"p", "u", "r">> THEN {"purge"} ELSE { }

\* lines 1096-1099
ExpandMnemonics ==
  /\ pc = "mnemonics"
  /\ pc' = "dummy"
  /\ expanded' = expanded \o MnemonicValues(argv, 0)
  /\ args' = [args EXCEPT !.set =
                @ \cup UNION {MnemonicDests(MnemonicValues(argv, 0)[k]) :
                                k \in 1..Len(MnemonicValues(argv, 0))}]
  /\ UNCHANGED <<argv, i, auxIndexes, extraHeaders, advancedHelp, verbose,
                 skipThreadCheck, command, prompts, vit, parserArgv, out, exc,
                 raw, parsed, env, usage,
                 dashFixed>>

\* a dummy step that puts the placeholder over any URL
DummyOverwriting ==
  /\ pc = "dummy"
  /\ pc' = "stdin"
  /\ args' = IF "dummy" \in args.set THEN [args EXCEPT !.url = <<DUMMY_URL>>] ELSE args
  /\ UNCHANGED <<argv, i, auxIndexes, extraHeaders, advancedHelp, verbose,
                 skipThreadCheck, command, prompts, vit, parserArgv, expanded,
                 out, exc, raw, parsed, env, usage,
                 dashFixed>>

\* lines 1101-1102
Dummy ==
  /\ pc = "dummy"
  /\ pc' = "stdin"
  /\ args' = IF "dummy" \in args.set /\ ~Truthy(args.url)
             THEN [args EXCEPT !.url = <<DUMMY_URL>>]
             ELSE args
  /\ UNCHANGED <<argv, i, auxIndexes, extraHeaders, advancedHelp, verbose,
                 skipThreadCheck, command, prompts, vit, parserArgv, expanded,
                 out, exc, raw, parsed, env, usage,
                 dashFixed>>

\* a test that does not look at the CI environment
StdinIsPipedUnderCI(a, e) ==
  e.fileno /\ ~(e.tty \/ "api" \in a.set \/ "ignoreStdin" \in a.set)

\* line 1104
StdinIsPiped(a, e) ==
  e.fileno /\ ~(e.tty \/ "api" \in a.set \/ "ignoreStdin" \in a.set \/ e.ci)

\* lines 1104-1107
Stdin ==
  /\ pc = "stdin"
  /\ pc' = "validate"
  /\ args' = [args EXCEPT !.stdinPipe = StdinIsPiped(args, env)]
  /\ UNCHANGED <<argv, i, auxIndexes, extraHeaders, advancedHelp, verbose,
                 skipThreadCheck, command, prompts, vit, parserArgv, expanded,
                 out, exc, raw, parsed, env, usage,
                 dashFixed>>

\* a check that forgets the piped standard input
HasTargetNoStdin(a) == (a.set \cap TargetDests) # { } \/ Truthy(a.url)

\* line 1109: the any(...) of the mandatory-target check
HasTarget(a) == (a.set \cap TargetDests) # { } \/ Truthy(a.url) \/ a.stdinPipe

\* lines 1109-1114
Validate ==
  /\ pc = "validate"
  /\ IF HasTarget(args)
     THEN pc' = "done" /\ exc' = exc /\ out' = out
     ELSE /\ pc' = "except" /\ exc' = "SystemExit"
          /\ out' = Append(out, "missing a mandatory option")
  /\ UNCHANGED <<argv, i, auxIndexes, extraHeaders, advancedHelp, verbose,
                 skipThreadCheck, command, prompts, vit, parserArgv, args,
                 expanded, raw, parsed, env, usage,
                 dashFixed>>

\* line 1121
PromptsForKey(e) == e.isWin /\ ~e.nonInteractive

\* lines 1116-1124: the first handler turns an ArgumentError or a TypeError
\* into parser.error(ex), whose SystemExit leaves the try statement; the second
\* handler takes a SystemExit raised in the body of the try statement and,
\* under the guard of line 1121, writes the prompt and waits for a key press
Except ==
  /\ pc = "except"
  /\ IF exc \in {"ArgumentError", "TypeError"}
     THEN pc' = "done" /\ out' = Append(out, "usage error") /\ exc' = "SystemExit"
     ELSE IF exc = "SystemExit" /\ PromptsForKey(env)
     THEN pc' = "keypress" /\ out' = Append(out, "press enter") /\ exc' = exc
     ELSE pc' = "done" /\ exc' = exc /\ out' = out
  /\ UNCHANGED <<argv, i, auxIndexes, extraHeaders, advancedHelp, verbose,
                 skipThreadCheck, command, prompts, vit, parserArgv, args,
                 expanded, raw, parsed, env, usage,
                 dashFixed>>

\* lines 1123-1124: the read of the key press returns, and SystemExit goes on,
\* or it ends with the end of input or an interrupt
KeyPress ==
  /\ pc = "keypress"
  /\ pc' = "done"
  /\ exc' \in {"SystemExit", "EOFError", "KeyboardInterrupt"}
  /\ UNCHANGED <<argv, i, auxIndexes, extraHeaders, advancedHelp, verbose,
                 skipThreadCheck, command, prompts, vit, parserArgv, args,
                 expanded, out, raw, parsed, env, usage,
                 dashFixed>>

\* ------------------------------------------------------- the inputs of a run

SeqsUpTo(S, n) == UNION {[1..k -> S] : k \in 1..n}

ProgramName == <<"s", "q", "l", "m", "a", "p", ".", "p", "y">>

\* tokens for the sanitizer and the lexical rules
LexTokens ==
  {ProgramName, <<"-", "h", "h">>, <<"-", "u">>, <<"w", "w", "w", ".", "x", ".", "i", "o">>, <<"-", "-", "b", "a", "t", "c", "h">>, <<"-", "b", "a", "t", "c", "h">>, <<"-", "a", "b", "c">>,
   <<"U+2013", "b", "a", "t", "c", "h">>, <<"U+2014", "U+2014", "b", "a", "t", "c", "h">>, <<"U+FF0D", "u">>, <<"U+2013", "h", "h">>, <<"U+2212", "U+201C", "b">>,
   <<"-", "-", "d", "a", "t", "a", "=", "U+201C", "a", "b", "c", "U+201D">>, <<"U+201C", "a", "b", "c", "U+201D">>, <<"-", "-", "d", "a", "t", "a", "=", "a", "U+FF0C", "b">>, <<"a", "U+FF0C", "b", "=", "c">>,
   <<"U+FF0C">>, <<"w", "w", "w", ".", "x", ".", "i", "o", "/", "?", "a", "=", "1", "U+FF0C", "2">>, <<"-", "u", "=", "1">>, <<"-", "u", "=">>, <<"-", "u", "=", "U+201D">>, <<"-", "-", "v", "e", "r", "s", "i", "o", "n">>,
   <<"-", "s">>, <<"-", "-", "c", "o", "m", "p", "r", "e", "s", "s", "e", "d">>, <<"d", "a", "t", "a", "=", "x">>}

\* tokens for the aggregation of multi-valued options
AggTokens ==
  {<<"-", "-", "s", "k", "i", "p", "=", "a">>, <<"-", "-", "s", "k", "i", "p", "=", "b", "=", "c">>, <<"-", "-", "s", "k", "i", "p", "=", "d">>, <<"-", "-", "s", "k", "i", "p">>, <<"b">>, <<"-", "-", "t", "a", "m", "p", "e", "r", "=", "t">>,
   <<"-", "-", "i", "g", "n", "o", "r", "e", "-", "c", "o", "d", "e">>, <<"U+2013", "U+2013", "s", "k", "i", "p", "=", "a">>, <<"U+201C", "-", "-", "t", "a", "m", "p", "e", "r", "=", "x", "U+201D">>}

\* tokens for the multi-file request loader
FileTokens == {<<"-", "r">>, <<"r", "e", "q", ".", "t", "x", "t">>, <<"e", "1", ".", "t", "x", "t">>, <<"n", "f">>}

\* the lines typed at the shell prompt
ShellLines ==
  {<<"x">>, <<"q">>, <<"e", "x", "i", "t">>, <<"q", "u", "i", "t">>, <<"Q", "U", "I", "T">>, <<" ", "x", " ">>, << >>, <<"c", "l", "e", "a", "r">>,
   <<"h", "e", "l", "p">>, <<"?">>, <<"f", "o", "o">>, <<"n", "e", "w", " ", "x">>, <<"n", "e", "w", " ", "n", "e", "w", " ", "x">>, <<"N", "E", "W", " ", " ", "c", "l", "e", "a", "r">>,
   <<"n", "e", "w", " ", "-", "h", "h">>, <<"-", "-", "s", "h", "e", "l", "l", " ", "-", "h", "h">>, <<"-", "-", "s", "k", "i", "p", " ", "\"", "a">>,
   <<"-", "u", " ", "\"", "h", "t", "t", "p", ":", "/", "/", "x", "/", "y", "?", "i", "d", "=", "1", "\"", " ", "-", "-", "b", "a", "t", "c", "h">>, <<"-", "u", " ", "'", "a">>, <<"-", "u", " ", "a", "\\">>, <<"-", "-", "b", "a", "t", "c", "h">>,
   <<"x", "\r">>, <<"n", "e", "w", "\r", "x">>, <<"-", "u", " ", "x", " ", "d", "a", "t", "a", "=", "1">>}

Env(isWin, nonInteractive, fileno, tty, ci) ==
  [isWin |-> isWin, nonInteractive |-> nonInteractive, fileno |-> fileno,
   tty |-> tty, ci |-> ci]

\* a terminal session on a platform without the double-click guard
TerminalEnv == Env(FALSE, FALSE, TRUE, TRUE, FALSE)

Envs ==
  {Env(w, n, f, t, c) : w \in BOOLEAN, n \in BOOLEAN, f \in BOOLEAN,
                         t \in BOOLEAN, c \in BOOLEAN}

\* what the option parser does with a command line: it returns the options a,
\* exits (SystemExit from its own error or help), or lets an exception out
Answer(exits, a) == [exits |-> exits, args |-> a, raises |-> "none"]

\* parse_known_args lets an ArgumentError or a TypeError out
ParserRaises(e) == [exits |-> FALSE, args |-> NoArgs, raises |-> e]

ParserExits == Answer(TRUE, NoArgs)

\* the parser found a URL
UrlAnswer == Answer(FALSE, MakeArgs({ }, <<<<"h", "t", "t", "p", ":", "/", "/", "x">>>>, << >>))

\* line 1081: the parser found no URL and set no target
NoTargetAnswer == Answer(FALSE, NoArgs)

\* line 1081: the parser took an emptied token for the URL
EmptyUrlAnswer == Answer(FALSE, MakeArgs({ }, << << >> >>, << >>))

\* line 1081: the parser took a token for the configuration file of -c, for
\* the request file of -r, or both a URL and a request file
ConfigAnswer == Answer(FALSE, MakeArgs({"configFile"}, << >>, << >>))

RequestFileAnswer == Answer(FALSE, MakeArgs({"requestFile"}, << >>, << >>))

UrlRequestFileAnswer == Answer(FALSE, MakeArgs({"requestFile"}, <<<<"h", "t", "t", "p", ":", "/", "/", "x">>>>, << >>))

\* line 1081: the parser was given --shell, with and without a URL typed at
\* the prompt
ShellAnswer == Answer(FALSE, MakeArgs({"shell"}, << >>, << >>))

ShellUrlAnswer == Answer(FALSE, MakeArgs({"shell"}, <<<<"h", "t", "t", "p", ":", "/", "/", "x">>>>, << >>))

\* line 1081: what the parser of lines 111-900 answers for the command lines
\* of the families: its own exit (an option without its value, an unknown
\* spelling, the help), options without a target, or options with a URL,
\* which is the empty text when the token taken for it was emptied by the pass
ParserAnswers == {ParserExits, NoTargetAnswer, UrlAnswer, EmptyUrlAnswer}

\* the destinations of an answer, url aside
AnswerDests == TargetDests \cup {"dummy", "api", "ignoreStdin"}

DestSets == {S \in SUBSET AnswerDests : Cardinality(S) <= MaxDests}

UrlValues == {<< >>, << << >> >>, <<<<"h", "t", "t", "p", ":", "/", "/", "x">>>>}

HeaderValues ==
  {<< >>, << << >> >>, <<<<"A", ":", "1">>>>, <<<<"A", ":", "1", "\\", "n", "B", ":", "2">>>>, <<<<"A", ":", "1", "\n", "B", ":", "2">>>>,
   <<<<"A", ":", "1", "\n">>>>}

Scenario(a, p, e) == [argv |-> a, parsed |-> p, env |-> e]

\* command lines that take every path of the pipeline
CommonScenarios ==
  {Scenario(a, p, e) :
     a \in {<<ProgramName, <<"-", "-", "g", "u", "i">>>>, <<ProgramName, <<"-", "-", "s", "h", "e", "l", "l">>>>,
            <<ProgramName, <<"-", "v", "v">>, <<"-", "z">>, <<"w", "i", "z">>>>,
            <<ProgramName, <<"-", "h">>>>, <<ProgramName, <<"-", "-", "v", "e", "r", "s", "i", "o", "n">>>>,
            <<ProgramName, <<"-", "u", "=", "1">>>>},
     p \in ParserAnswers \cup {ShellAnswer, ShellUrlAnswer}
            \cup {ParserRaises("ArgumentError"), ParserRaises("TypeError"),
                  ParserRaises("UnicodeEncodeError")},
     e \in {TerminalEnv, Env(TRUE, FALSE, TRUE, TRUE, FALSE),
            Env(TRUE, TRUE, TRUE, TRUE, FALSE)}}

LexScenarios ==
  {Scenario(a, p, TerminalEnv) :
     a \in SeqsUpTo(LexTokens, MaxLexArgs), p \in ParserAnswers \cup {ConfigAnswer}}

AggScenarios ==
  {Scenario(a, p, TerminalEnv) :
     a \in SeqsUpTo(AggTokens, MaxAggArgs), p \in ParserAnswers}

FileScenarios ==
  {Scenario(a, p, TerminalEnv) :
     a \in SeqsUpTo(FileTokens, MaxFileArgs),
     p \in ParserAnswers \cup {RequestFileAnswer, UrlRequestFileAnswer}}

\* tokens for the hyphen injection, the silent flag and the threads override
RuleTokens ==
  {<<"-", "b", "a", "t", "c", "h">>, <<"-", "a", "b", "c">>, <<"-", "d", "a", "t", "a", "=", "x">>, <<"-", "a", "b", "c", "=", "x">>, <<"-", "a", "b">>, <<"-", "-", "b", "a", "t", "c", "h">>, <<"-", "s">>,
   <<"-", "-", "s", "i", "l", "e", "n", "t">>, <<"x">>, <<"-", "u">>, <<"-", "-", "t", "h", "r", "e", "a", "d", "s">>, <<"-", "t", "h", "r", "e", "a", "d", "s">>, <<"5", "!">>, <<"5">>,
   <<"-", "-", "t", "h", "r", "e", "a", "d", "s", "=", "5", "!">>, <<"-", "t", "h", "r", "e", "a", "d", "s", "=", "5", "!">>, <<"-", "-", "t", "h", "r", "e", "a", "d", "s", "=", "x", "!">>, <<"-", "s", "k", "i", "p", "=", "a">>, <<"-", "-", "s", "k", "i", "p", "=", "b">>,
   <<"-", "v", "e", "r", "s", "i", "o", "n">>, <<"-", "h", "e", "l", "p">>}

RuleScenarios ==
  {Scenario(<<ProgramName>> \o a, p, TerminalEnv) :
     a \in SeqsUpTo(RuleTokens, MaxRuleArgs), p \in ParserAnswers \cup {ConfigAnswer}}

\* tokens for the verbosity shorthand
VerbTokens == {<<"-", "v">>, <<"-", "v", "v">>, <<"3">>, <<"x">>, <<"-", "s">>}

VerbScenarios ==
  {Scenario(<<ProgramName>> \o a, p, TerminalEnv) :
     a \in SeqsUpTo(VerbTokens, MaxVerbArgs), p \in ParserAnswers}

\* options at the last position and lookbehind tokens at the first one
EdgeScenarios ==
  {Scenario(a, p, TerminalEnv) :
     p \in ParserAnswers \cup {ConfigAnswer, RequestFileAnswer},
     a \in {<<<<"5", "!">>, <<"-", "-", "t", "h", "r", "e", "a", "d", "s">>>>, <<<<"d", "a", "t", "a", "=", "x">>, <<"-", "-", "b", "a", "t", "c", "h">>>>,
            <<<<"d", "a", "t", "a", "=", "-", "-", "d", "a", "t", "a", "=">>, <<"x">>>>, <<<<"d", "a", "t", "a", "=", "-", "-", "d", "a", "t", "a", "=">>, <<"-", "-", "b", "a", "t", "c", "h">>>>,
            <<<<"d", "a", "t", "a", "=", "-", "-", "d", "a", "t", "a", "=">>>>, <<<<"b", "i", "n", "/", "-", "-", "d", "a", "t", "a", "=">>, <<"x">>, <<"d", "a", "t", "a", "=", "1">>>>,
            <<<<"-", "-", "a", "b", "c">>, <<"-", "a", "b", "c">>>>,
            <<ProgramName, <<"-", "-", "t", "a", "m", "p", "e", "r", "=", "a">>, <<"-", "-", "t", "a", "m", "p", "e", "r", "\r", "x">>, <<"y">>>>,
            <<ProgramName, <<"-", "-", "t", "a", "m", "p", "e", "r", "\r", "x">>>>, <<ProgramName, <<"-", "u", "=", "\r">>>>,
            <<ProgramName, <<"a", "=", "\r", "U+2018", "b", "U+2019">>, <<"\r", "U+2018">>>>,
            <<<<"-", "-", "a", "a", "a", "\n", "\n", "\n", "b", "b", "b", "=">>, <<"-", "a", "a", "a", "\n", "\n", "b", "b", "b", "=", "1">>, <<"-", "a", "a", "a", "\n", "\n", "\n", "b", "b", "b", "=", "1">>>>,
            <<<<"-", "-", "a", "a", "a", "\n", "\n", "\n", "b", "b", "b", "=">>, <<"x">>, <<"a", "a", "a", "\n", "\n", "b", "b", "b", "=", "1">>>>,
            <<<<"a", "%", "b">>, <<"-", "u">>, <<"x">>>>, <<<<"1", "0", "0", "%">>, <<"-", "u">>>>, <<<<"a", "%", "%", "b", "-", "-", "d", "a", "t", "a", "=">>, <<"d", "a", "t", "a", "=", "1">>>>,
            <<<<"%", "d">>, <<"-", "u">>>>, <<<<"%", "(", "x", ")", "s">>, <<"-", "u">>>>, <<<<"%", "s", "-", "-", "d", "a", "t", "a", "=">>, <<"x">>, <<"d", "a", "t", "a", "=", "1">>>>,
            <<ProgramName, <<"-", "r">>>>, <<ProgramName, <<"-", "H">>>>, <<ProgramName, <<"-", "z">>>>,
            <<ProgramName, <<"-", "-", "s", "k", "i", "p">>>>, <<ProgramName, <<"-", "-", "s", "k", "i", "p", "=", "a">>, <<"-", "-", "s", "k", "i", "p">>>>,
            <<ProgramName, <<"-", "-", "s", "k", "i", "p">>, <<"a">>, <<"-", "-", "s", "k", "i", "p">>>>,
            <<ProgramName, <<"-", "r">>, <<"r", "e", "q", ".", "t", "x", "t">>>>,
            <<ProgramName, <<"-", "r">>, <<"r", "e", "q", ".", "t", "x", "t">>, <<"e", "1", ".", "t", "x", "t">>>>,
            <<ProgramName, <<"-", "r">>, <<"r", "e", "q", ".", "t", "x", "t">>, <<"e", "1", ".", "t", "x", "t">>, <<"x">>>>}}
  \cup
  \* a Windows build, where line 108 takes the name after the drive and the
  \* last separator of either kind
  {Scenario(a, p, Env(TRUE, FALSE, TRUE, TRUE, FALSE)) :
     p \in ParserAnswers,
     a \in {<<<<"C", ":", "\\", "x", "\\", "s", "q", "l", "m", "a", "p", ".", "p", "y">>, <<"-", "u">>, <<"x">>>>,
            <<<<"x", "\\", "-", "-", "d", "a", "t", "a", "=">>, <<"x">>, <<"d", "a", "t", "a", "=", "1">>>>,
            <<<<"C", ":", "-", "-", "d", "a", "t", "a", "=">>, <<"d", "a", "t", "a", "=", "1">>>>,
            <<<<"\\", "\\", "h", "\\", "s", "\\", "-", "-", "d", "a", "t", "a", "=">>, <<"d", "a", "t", "a", "=", "1">>>>}}

\* the help flags, with a parser that exits and one that does not
HelpScenarios ==
  {Scenario(a, p, TerminalEnv) :
     a \in {<<ProgramName, <<"-", "h">>>>, <<ProgramName, <<"-", "-", "h", "e", "l", "p">>>>,
            <<ProgramName, <<"-", "h", "h">>>>, <<ProgramName, <<"-", "h", "h">>, <<"-", "h">>>>,
            <<ProgramName, <<"-", "h", "h">>, <<"-", "-", "h", "e", "l", "p">>>>, <<ProgramName, <<"-", "u">>>>,
            <<ProgramName, <<"U+2013", "h">>>>},
     p \in ParserAnswers}

\* every answer of the parser, for a few command lines
ValidatorScenarios ==
  {Scenario(a, Answer(FALSE, MakeArgs(S, u, << >>)), e) :
     a \in {<<ProgramName>>, <<ProgramName, <<"-", "z">>, <<"w", "i", "z">>>>},
     S \in DestSets, u \in UrlValues,
     e \in {en \in Envs : ~en.isWin /\ ~en.nonInteractive}}

\* command lines with several mnemonic flags, with and without a URL
MacroScenarios ==
  {Scenario(a, p, TerminalEnv) :
     a \in {<<ProgramName, <<"-", "z">>, <<"w", "i", "z">>, <<"-", "z">>, <<"p", "u", "r">>>>,
            <<ProgramName, <<"-", "z">>, <<"p", "u", "r">>, <<"-", "z">>, <<"w", "i", "z">>>>,
            <<ProgramName, <<"-", "z">>>>,
            <<ProgramName, <<"-", "z">>, <<"-", "z">>, <<"w", "i", "z">>>>,
            <<ProgramName, <<"-", "z">>, <<"b", "a", "t">>, <<"-", "z">>>>,
            <<ProgramName, <<"-", "z">>, <<"w", "i", "z">>, <<"-", "v">>>>,
            <<ProgramName, <<"U+2013", "z">>, <<"w", "i", "z">>>>},
     p \in ParserAnswers}

\* the shell flag alone, with the parser answering that it is set
ShellFlagScenarios ==
  {Scenario(a, p, TerminalEnv) :
     a \in {<<ProgramName, <<"-", "-", "s", "h", "e", "l", "l">>>>, <<<<"-", "-", "d", "a", "t", "a", "=">>, <<"-", "-", "s", "h", "e", "l", "l">>>>},
     p \in {ParserExits, ShellAnswer, ShellUrlAnswer, UrlAnswer}}

\* header flags against every bulk headers value
HeaderScenarios ==
  {Scenario(a, Answer(FALSE, MakeArgs({ }, <<<<"h", "t", "t", "p", ":", "/", "/", "x">>>>, h)), TerminalEnv) :
     a \in {<<ProgramName>>,
            <<ProgramName, <<"-", "H">>, <<"X", ":", "1">>>>,
            <<ProgramName, <<"-", "-", "h", "e", "a", "d", "e", "r", "=", "X", ":", "1">>, <<"-", "H">>, <<"Y", ":", "2">>>>,
            <<ProgramName, <<"-", "-", "h", "e", "a", "d", "e", "r", "=">>>>,
            <<ProgramName, <<"-", "H", "=", "X", ":", "1">>>>,
            <<ProgramName, <<"-", "H">>, <<"X", ":", "1">>, <<"-", "-", "h", "e", "a", "d", "e", "r">>, <<"Y", ":", "2">>>>,
            <<ProgramName, <<"-", "u">>, <<"-", "H">>>>,
            <<ProgramName, <<"-", "H">>, <<"U+201C", "X", ":", "1", "U+201D">>>>},
     h \in HeaderValues}
  \cup
  {Scenario(a, p, TerminalEnv) :
     p \in {ParserExits, NoTargetAnswer},
     a \in {<<ProgramName>>,
            <<ProgramName, <<"-", "H">>, <<"X", ":", "1">>>>,
            <<ProgramName, <<"-", "-", "h", "e", "a", "d", "e", "r", "=", "X", ":", "1">>, <<"-", "H">>, <<"Y", ":", "2">>>>,
            <<ProgramName, <<"-", "-", "h", "e", "a", "d", "e", "r", "=">>>>,
            <<ProgramName, <<"-", "H", "=", "X", ":", "1">>>>,
            <<ProgramName, <<"-", "H">>, <<"X", ":", "1">>, <<"-", "-", "h", "e", "a", "d", "e", "r">>, <<"Y", ":", "2">>>>,
            <<ProgramName, <<"-", "u">>, <<"-", "H">>>>,
            <<ProgramName, <<"-", "H">>, <<"U+201C", "X", ":", "1", "U+201D">>>>}}

InitWith(scenarios) ==
  /\ \E sc \in scenarios : argv = sc.argv /\ parsed = sc.parsed /\ env = sc.env
  /\ usage = UsageLine(argv, env.isWin)
  /\ pc = "start"
  /\ i = 0
  /\ auxIndexes = { }
  /\ extraHeaders = << >>
  /\ advancedHelp = TRUE
  /\ verbose = None
  /\ skipThreadCheck = FALSE
  /\ command = << >>
  /\ prompts = 0
  /\ vit = 0
  /\ parserArgv = << >>
  /\ args = NoArgs
  /\ expanded = << >>
  /\ out = << >>
  /\ exc = "none"
  /\ raw = << >>
  /\ dashFixed = << >>

Init == InitWith(CommonScenarios \cup LexScenarios)

InitAggregate == InitWith(CommonScenarios \cup AggScenarios)

InitRequestFiles == InitWith(CommonScenarios \cup FileScenarios)

InitValidator ==
  InitWith(CommonScenarios \cup ValidatorScenarios \cup HeaderScenarios
           \cup MacroScenarios \cup ShellFlagScenarios)

InitRules ==
  InitWith(CommonScenarios \cup RuleScenarios \cup VerbScenarios \cup HelpScenarios
           \cup EdgeScenarios)

Next ==
  \/ Start
  \/ ShellInterrupt
  \/ \E text \in ShellLines : ShellRead(text)
  \/ Tokenize
  \/ Rewrite
  \/ VerbosityStep
  \/ Parse
  \/ MergeHeaders
  \/ ExpandMnemonics
  \/ Dummy
  \/ Stdin
  \/ Validate
  \/ Except
  \/ KeyPress

Spec == Init /\ [][Next]_vars

SpecAggregate == InitAggregate /\ [][Next]_vars

SpecRequestFiles == InitRequestFiles /\ [][Next]_vars

SpecValidator == InitValidator /\ [][Next]_vars

SpecRules == InitRules /\ [][Next]_vars

\* ------------------------------------------------------------------ the claims

\* the exceptions with which a run leaves once SystemExit is raised in the body
\* of the try statement: SystemExit itself or, after the prompt of line 1122,
\* what the read of the key press of line 1123 ends with
FatalOutcomes ==
  IF PromptsForKey(env) THEN {"SystemExit", "EOFError", "KeyboardInterrupt"}
  ELSE {"SystemExit"}

\* the pass has gone over every token and the verbosity loop has not yet begun
PassDone == pc = "verbosity" /\ vit = 0

\* the options line 1024 aggregates
MultiValuedOptions == {<<"-", "-", "t", "a", "m", "p", "e", "r">>, <<"-", "-", "i", "g", "n", "o", "r", "e", "-", "c", "o", "d", "e">>, <<"-", "-", "s", "k", "i", "p">>}

\* the positions (from 1) of seq whose sanitized token is opt=value
EqOccurrences(seq, opt) ==
  {k \in 1..Len(seq) : StartsWith(Sanitize(seq[k]), Append(opt, "="))}

\* the positions (from 1) of seq whose sanitized token is opt alone
BareOccurrences(seq, opt) == {k \in 1..Len(seq) : Sanitize(seq[k]) = opt}

\* the text of tok after its first '='
ValueOf(tok) == SubSeq(tok, FirstPos(tok, "=") + 1, Len(tok))

SetMin(S) == CHOOSE x \in S : \A y \in S : x <= y

\* the members of the set of positions S in increasing order
RECURSIVE Ascending(_)
Ascending(S) ==
  IF S = { } THEN << >> ELSE <<SetMin(S)>> \o Ascending(S \ {SetMin(S)})

\* the texts list[1], ..., list[n] with a comma between neighbours
RECURSIVE CommaList(_)
CommaList(list) ==
  IF Len(list) = 0 THEN << >>
  ELSE IF Len(list) = 1 THEN list[1]
  ELSE list[1] \o <<",">> \o CommaList(Tail(list))

\* C1 (as claimed): when every occurrence of a multi-valued option has the form
\* opt=value, after the pass the first occurrence holds opt=v1,...,vn with the
\* values in argv order and every later occurrence is empty.
C1_EqFormAggregated ==
  PassDone =>
    \A opt \in MultiValuedOptions :
      LET occ == EqOccurrences(raw, opt)
          order == Ascending(occ)
      IN  (occ # { } /\ BareOccurrences(raw, opt) = { }) =>
            /\ argv[order[1]] =
                 Append(opt, "=")
                   \o CommaList([k \in 1..Len(order) |-> ValueOf(Sanitize(raw[order[k]]))])
            /\ \A k \in 2..Len(order) : argv[order[k]] = << >>

\* C2 (as claimed): when every occurrence of a multi-valued option is followed by
\* its value as a bare token, after the pass the first occurrence's value token
\* holds v1,...,vn, every later occurrence is empty, and no later occurrence's
\* value is left behind as a token of its own.
C2_BareFormAggregated ==
  PassDone =>
    \A opt \in MultiValuedOptions :
      LET occ == BareOccurrences(raw, opt)
          order == Ascending(occ)
      IN  (/\ occ # { }
           /\ EqOccurrences(raw, opt) = { }
           /\ \A k \in occ : k < Len(raw) /\ ~StartsWith(raw[k + 1], <<"-">>)) =>
            /\ argv[order[1] + 1] =
                 CommaList([k \in 1..Len(order) |-> Sanitize(raw[order[k] + 1])])
            /\ \A k \in 2..Len(order) : argv[order[k]] = << >>
            /\ \A k \in 2..Len(order) : argv[order[k] + 1] = << >>

\* the number of tokens from position j on that name an existing file, one after
\* the other
FileRun(a, j) ==
  CHOOSE n \in 0..Len(a) :
    /\ j + n <= Len(a)
    /\ \A k \in j..(j + n - 1) : At(a, k) \in ExistingFiles
    /\ (j + n = Len(a) \/ At(a, j + n) \notin ExistingFiles)

\* C3: when the pass is at a "-r" at position i, it appends to the token at
\* i + 1, each after a comma and in order, the tokens from i + 2 on that name an
\* existing file, up to the first that does not, empties those, and leaves every
\* other token as it was, a later existing file included.
C3_RequestFilesPass ==
  (pc = "rewrite" /\ i < Len(argv) /\ Sanitize(At(argv, i)) = <<"-", "r">>) =>
    LET n == IF i + 2 <= Len(argv) THEN FileRun(argv, i + 2) ELSE 0 IN
      /\ Len(argv') = Len(argv)
      /\ \A k \in 0..(Len(argv) - 1) :
           At(argv', k) =
             IF k = i + 1 /\ n > 0
             THEN At(argv, k) \o <<",">>
                    \o CommaList([m \in 1..n |-> At(argv, i + 1 + m)])
             ELSE IF k >= i + 2 /\ k < i + 2 + n THEN << >>
             ELSE At(argv, k)

C3_RequestFilesLoaded == [][C3_RequestFilesPass]_vars

\* C3 witness: a "-r" took two files and stopped at a token that names none,
\* with an existing file after it
C3_Witness ==
  /\ PassDone
  /\ raw = <<<<"n", "f">>, <<"-", "r">>, <<"r", "e", "q", ".", "t", "x", "t">>, <<"e", "1", ".", "t", "x", "t">>, <<"n", "f">>, <<"e", "1", ".", "t", "x", "t">>>>
  /\ argv = <<<<"n", "f">>, <<"-", "r">>, <<"r", "e", "q", ".", "t", "x", "t", ",", "e", "1", ".", "t", "x", "t">>, << >>, <<"n", "f">>, <<"e", "1", ".", "t", "x", "t">>>>

EndsWith(s, p) == Len(s) >= Len(p) /\ SubSeq(s, Len(s) - Len(p) + 1, Len(s)) = p

\* the two separators of a headers value
HeaderDelimiters == {<<"\n">>, <<"\\", "n">>}

\* text has no empty logical line: no separator first, last, or twice in a row
NoEmptyLine(text) ==
  \A d \in HeaderDelimiters :
    ~StartsWith(text, d) /\ ~EndsWith(text, d) /\ ~Contains(text, d \o d)

\* the bulk headers value the parser answered, "" when absent
BulkHeaders == IF parsed.args.headers = << >> THEN << >> ELSE parsed.args.headers[1]

\* C4 (as claimed): for every bulk headers value (absent, empty, or lines joined
\* by either separator) and every non-empty list of non-empty header flags, the
\* merged headers value holds the bulk content and every header flag and has no
\* empty logical line: no two separators in a row, none first, none last.
C4_MergedHeadersClean ==
  (/\ pc = "mnemonics"
   /\ extraHeaders # << >>
   /\ \A k \in 1..Len(extraHeaders) : extraHeaders[k] # << >>
   /\ NoEmptyLine(BulkHeaders)) =>
    /\ Contains(args.headers[1], BulkHeaders)
    /\ \A k \in 1..Len(extraHeaders) : Contains(args.headers[1], extraHeaders[k])
    /\ NoEmptyLine(args.headers[1])

\* the mandatory-target check has run and accepted: cmdLineParser returned
Returned == pc = "done" /\ exc = "none"

\* the mandatory-target check has run and refused
Refused == exc = "SystemExit" /\ \E k \in 1..Len(out) : out[k] = "missing a mandatory option"

\* the indicators the claim lists
ListedTargets ==
  {"direct", "logFile", "bulkFile", "googleDork", "configFile", "requestFile",
   "updateAll", "purge", "listTampers", "dependencies", "wizard", "smokeTest",
   "vulnTest"}

ListedIndicatorSet(a) ==
  \/ \E d \in ListedTargets : d \in a.set
  \/ a.url # << >> /\ a.url[1] # << >>
  \/ a.stdinPipe

\* C5 (as claimed): the validator returns the options exactly when one of the
\* listed indicators is set, and raises the usage error otherwise.
C5_AcceptsExactlyListed ==
  (Returned \/ Refused) => (Returned <=> ListedIndicatorSet(args))

\* C5 (amended): the validator returns the options exactly when one of the
\* listed indicators or the hash file is set; otherwise it raises the usage
\* error and returns nothing.
C5_AcceptsListedOrHashFile ==
  (Returned \/ Refused) =>
    /\ Returned <=> (ListedIndicatorSet(args) \/ "hashFile" \in args.set)
    /\ ~Returned => (exc = "SystemExit" /\ pc \in {"except", "keypress", "done"})

\* C5 witness: the hash file alone is accepted
C5_Witness ==
  /\ Returned
  /\ args.set = {"hashFile"}
  /\ args.url = << >>
  /\ ~args.stdinPipe

\* the inputs the claim names
ClaimedQuitInputs == {<<"x">>, <<"q">>, <<"e", "x", "i", "t">>, <<"q", "u", "i", "t">>}

\* C6: at the prompt, each of x, q, exit, quit and an interrupted read end the
\* call with the same shell-quit exception, which is not the fatal exit; no
\* token has been appended to argv, the pass and the parser have not run, and
\* nothing happens after it.
C6_QuitStep ==
  /\ (pc = "prompt" /\ (command' \in ClaimedQuitInputs \/ out' = Append(out, "newline"))) =>
       /\ exc' = "SqlmapShellQuitException"
       /\ pc' = "done"
       /\ argv' = argv
       /\ i' = 0 /\ raw' = << >> /\ dashFixed' = << >>
       /\ parserArgv' = << >>
  /\ exc = "SqlmapShellQuitException" => FALSE

C6_ControlledQuit == [][C6_QuitStep]_vars

\* C6 witness: the line "q" was typed after another line and the call ended
C6_Witness ==
  /\ pc = "done"
  /\ exc = "SqlmapShellQuitException"
  /\ command = <<"q">>
  /\ prompts = 2
  /\ parserArgv = << >>

\* tok has an '=' and a full-width comma after the first one
CommaInValue(tok) ==
  \E e \in 1..Len(tok) :
    /\ tok[e] = "="
    /\ \A j \in 1..(e - 1) : tok[j] # "="
    /\ \E j \in (e + 1)..Len(tok) : tok[j] = "U+FF0C"

\* tok is a hyphen, a word character, '=' and a value (a text that does not
\* begin with a line break)
ShortOptionWithValue(tok) ==
  /\ Len(tok) > 3
  /\ tok[1] = "-"
  /\ tok[2] \in WordChars
  /\ tok[3] = "="
  /\ tok[4] # "\n"

\* C7: when the sanitized token the pass is at is not "-hh" and not a URL at
\* position 1, and has a full-width comma in its value or is a short option with
\* '=' and a value, the step ends in the fatal exit with a diagnostic, rewrites
\* no other token, and the parser is never called and no options are returned.
C7_IllegalStep ==
  /\ (/\ pc = "rewrite" /\ i < Len(argv)
      /\ Sanitize(At(argv, i)) # <<"-", "h", "h">>
      /\ ~(i = 1 /\ IsBareUrl(Sanitize(At(argv, i))))
      /\ (CommaInValue(Sanitize(At(argv, i))) \/ ShortOptionWithValue(Sanitize(At(argv, i))))) =>
       /\ pc' = "except" /\ exc' = "SystemExit"
       /\ Len(out') = Len(out) + 1
       /\ out'[Len(out')] \in {"illegal comma", "illegal short option"}
       /\ Len(argv') = Len(argv)
       /\ \A k \in 0..(Len(argv) - 1) : k # i => At(argv', k) = At(argv, k)
  /\ (pc = "except" /\ out # << >>
        /\ out[Len(out)] \in {"illegal comma", "illegal short option"}) =>
       /\ pc' \in {"keypress", "done"} /\ exc' = "SystemExit"
       /\ parserArgv' = << >> /\ args' = NoArgs /\ argv' = argv
  /\ (pc = "keypress" /\ Len(out) >= 2
        /\ out[Len(out) - 1] \in {"illegal comma", "illegal short option"}) =>
       /\ pc' = "done" /\ exc' \in FatalOutcomes
       /\ parserArgv' = << >> /\ args' = NoArgs /\ argv' = argv

C7_IllegalTokenIsFatal == [][C7_IllegalStep]_vars

\* C7 witness: the pass stopped at a token with a full-width comma in its value,
\* with a "-hh" after it left as it was
C7_Witness ==
  /\ pc = "done"
  /\ exc = "SystemExit"
  /\ out = <<"illegal comma">>
  /\ argv = <<<<"-", "-", "d", "a", "t", "a", "=", "a", "U+FF0C", "b">>, <<"-", "h", "h">>>>
  /\ parserArgv = << >>

\* tok has an '=' whose value begins with a rich-text quote, and tok ends with
\* one
RichQuoteWrapped(tok) ==
  \E e \in 1..(Len(tok) - 1) :
    /\ tok[e] = "="
    /\ \A j \in 1..(e - 1) : tok[j] # "="
    /\ tok[e + 1] \in RichQuoteRange
    /\ tok[Len(tok)] \in RichQuoteRange

\* C8 (as claimed): when the raw token the pass is at is not claimed by the
\* "-hh" fix-up or the position-1 URL shorthand and its value is wrapped in
\* rich-text quotes, the step ends in the fatal exit with the illegal-quote
\* diagnostic and the parser has not been called.
C8_RichQuoteStep ==
  (/\ pc = "rewrite" /\ i < Len(argv)
   /\ Sanitize(At(argv, i)) # <<"-", "h", "h">>
   /\ ~(i = 1 /\ IsBareUrl(Sanitize(At(argv, i))))
   /\ RichQuoteWrapped(At(argv, i))) =>
    /\ pc' = "except" /\ exc' = "SystemExit"
    /\ out' = Append(out, "illegal quote")
    /\ parserArgv' = << >>

C8_RichQuoteIsFatal == [][C8_RichQuoteStep]_vars

\* number of leading dash look-alikes of tok
DashRun(tok) == LeadRun(tok, DashLookalikes)

\* C9 (as claimed): when the token the pass is at begins with k >= 1 dash
\* look-alikes and the pass goes on, the token left at that position is the
\* original with that run replaced by k hyphens and nothing else changed.
C9_TokenLeavesStep ==
  (/\ pc = "rewrite" /\ i < Len(argv) /\ pc' # "except"
   /\ DashRun(At(argv, i)) >= 1) =>
    /\ Len(At(argv', i)) = Len(At(argv, i))
    /\ \A j \in 1..Len(At(argv, i)) :
         At(argv', i)[j] = IF j <= DashRun(At(argv, i)) THEN "-" ELSE At(argv, i)[j]

C9_TokenLeavesWithHyphens == [][C9_TokenLeavesStep]_vars

\* C9 (amended): when the token the pass is at begins with k >= 1 dash
\* look-alikes, the dash substitution of line 987 yields the original with that
\* run replaced by k hyphens and nothing else changed; the steps after it (quote
\* strip, hyphen injection, renames) may change the token further.
C9_DashStep ==
  (pc = "rewrite" /\ i < Len(argv) /\ DashRun(At(argv, i)) >= 1) =>
    /\ Len(dashFixed') = Len(At(argv, i))
    /\ \A j \in 1..Len(At(argv, i)) :
         dashFixed'[j] = IF j <= DashRun(At(argv, i)) THEN "-" ELSE At(argv, i)[j]

C9_DashRunReplaced == [][C9_DashStep]_vars

\* C9 witness: a run of two look-alikes became two hyphens
C9_Witness ==
  /\ pc = "rewrite"
  /\ i = 1
  /\ raw = <<<<"U+2014", "U+2014", "b", "a", "t", "c", "h">>, <<"-", "u">>>>
  /\ dashFixed = <<"-", "-", "b", "a", "t", "c", "h">>
  /\ argv = <<<<"-", "-", "b", "a", "t", "c", "h">>, <<"-", "u">>>>

\* the line of the claim
QuotedUrlLine == <<"-", "u", " ", "\"", "h", "t", "t", "p", ":", "/", "/", "x", "/", "y", "?", "i", "d", "=", "1", "\"", " ", "-", "-", "b", "a", "t", "c", "h">>

\* C10 (as claimed): tokenizing the line appends exactly two tokens, the flag
\* with the unquoted URL and --batch.
C10_TwoTokensStep ==
  (pc = "tokenize" /\ command = QuotedUrlLine) =>
    argv' = argv \o <<<<"-", "u", " ", "h", "t", "t", "p", ":", "/", "/", "x", "/", "y", "?", "i", "d", "=", "1">>, <<"-", "-", "b", "a", "t", "c", "h">>>>

C10_TwoTokens == [][C10_TwoTokensStep]_vars

\* C10 (amended): tokenizing the line appends exactly three tokens, -u, the URL
\* without its quotes, and --batch.
C10_ThreeTokensStep ==
  (pc = "tokenize" /\ command = QuotedUrlLine) =>
    /\ argv' = argv \o <<<<"-", "u">>, <<"h", "t", "t", "p", ":", "/", "/", "x", "/", "y", "?", "i", "d", "=", "1">>, <<"-", "-", "b", "a", "t", "c", "h">>>>
    /\ pc' = "rewrite"

C10_ThreeTokens == [][C10_ThreeTokensStep]_vars

\* C10 witness: the line was tokenized and the pass is about to start
C10_Witness ==
  /\ pc = "rewrite"
  /\ i = 0
  /\ command = QuotedUrlLine
  /\ Len(argv) = 5
  /\ At(argv, 3) = <<"h", "t", "t", "p", ":", "/", "/", "x", "/", "y", "?", "i", "d", "=", "1">>

\* C11 (as claimed): when no token of the command line is empty once sanitized,
\* no sequence handed to the option parser holds an empty token: the tokens the
\* rewrite rules emptied have been dropped.
C11_NoEmptyTokenParsed ==
  (\A j \in 1..Len(raw) : Sanitize(raw[j]) # << >>) =>
    \A n \in 1..Len(parserArgv) : \A k \in 1..Len(parserArgv[n]) :
      parserArgv[n][k] # << >>

\* C12: at every iteration of the rewrite pass the sequence keeps its length,
\* and every token other than the one the iteration is at stays at its
\* position: it is left as it was, has a value appended to its end, or is set
\* to empty; an anchor recorded for aggregation is a position of the sequence
\* and the token there only grows.
C12_PositionsStableStep ==
  (pc = "rewrite" /\ i < Len(argv)) =>
    /\ Len(argv') = Len(argv)
    /\ Len(argv') = Len(raw)
    /\ \A k \in 0..(Len(argv) - 1) :
         \/ k = i
         \/ At(argv', k) = At(argv, k)
         \/ At(argv', k) = << >>
         \/ StartsWith(At(argv', k), At(argv, k))
    /\ \A e \in auxIndexes :
         e.index # None =>
           /\ e.index \in 0..(Len(argv') - 1)
           /\ e.index # i => StartsWith(At(argv', e.index), At(argv, e.index))

C12_PositionsStable == [][C12_PositionsStableStep]_vars

\* C12 witness: the pass is over, the anchor recorded at position 1 has taken a
\* later value and the later occurrence is an empty token at its own position
C12_Witness ==
  /\ PassDone
  /\ raw = <<<<"-", "-", "s", "k", "i", "p">>, <<"b">>, <<"-", "-", "t", "a", "m", "p", "e", "r", "=", "t">>, <<"-", "-", "s", "k", "i", "p", "=", "d">>>>
  /\ argv = <<<<"-", "-", "s", "k", "i", "p">>, <<"b", ",", "d">>, <<"-", "-", "t", "a", "m", "p", "e", "r", "=", "t">>, << >>>>
  /\ AuxGet(auxIndexes, <<"s", "k", "i", "p">>) = 1

\* the state in which a pass over the sequence a begins (lines 916-919)
PassStart(a) ==
  [argv |-> a, auxIndexes |-> { }, extraHeaders |-> << >>, advancedHelp |-> TRUE,
   verbose |-> None, skipThreadCheck |-> FALSE, out |-> << >>, raised |-> "none"]

\* the pass over every position from k on, up to the first fatal token
RECURSIVE PassFrom(_, _)
PassFrom(s, k) ==
  IF k >= Len(s.argv) \/ s.raised # "none"
  THEN s
  ELSE PassFrom(RewriteToken(s, k), k + 1)

\* the original command line: what argv held when the shell was entered
OriginalArgv == <<ProgramName, <<"-", "-", "s", "h", "e", "l", "l">>>>

\* C13: a typed line that begins with a hyphen has the history saved, then
\* reloaded, and leaves the loop; its words are then appended to argv in typed
\* order after the original tokens, and the pass runs over the combined sequence
\* from position 0: what it leaves is what the pass gives for a command line
\* that held the same tokens from the start.
C13_AcceptStep ==
  /\ (pc = "prompt" /\ command' # << >> /\ command'[1] = "-") =>
       /\ out' = out \o <<"saveHistory", "loadHistory">>
       /\ pc' = "tokenize"
       /\ argv' = argv
  /\ (pc = "tokenize" /\ pc' = "rewrite") =>
       /\ argv' = argv \o ShlexSplit(command).tokens
       /\ i' = 0 /\ auxIndexes' = { } /\ extraHeaders' = << >>
  /\ (pc = "rewrite" /\ pc' = "verbosity" /\ command # << >>) =>
       /\ argv' = PassFrom(PassStart(raw), 0).argv
       /\ extraHeaders' = PassFrom(PassStart(raw), 0).extraHeaders
       /\ verbose' = PassFrom(PassStart(raw), 0).verbose
       /\ advancedHelp' = PassFrom(PassStart(raw), 0).advancedHelp

C13_TypedLineAccepted == [][C13_AcceptStep]_vars

\* C13 witness: "--shell -hh" was typed; both words follow the original tokens
\* and the pass has rewritten the typed -hh
C13_Witness ==
  /\ PassDone
  /\ command = <<"-", "-", "s", "h", "e", "l", "l", " ", "-", "h", "h">>
  /\ raw = OriginalArgv \o <<<<"-", "-", "s", "h", "e", "l", "l">>, <<"-", "h", "h">>>>
  /\ argv = OriginalArgv \o <<<<"-", "-", "s", "h", "e", "l", "l">>, <<"-", "h">>>>
  /\ out = <<"saveHistory", "loadHistory">>

\* a step that reads a line at the prompt (an interrupted read prints a newline)
ReadsLine == pc = "prompt" /\ prompts' = prompts + 1 /\ out' # Append(out, "newline")

\* the step goes back to the prompt with argv as it was
BackToPrompt == pc' = "prompt" /\ argv' = argv /\ exc' = "none" /\ raw' = raw

\* C14: at the prompt, an empty line, "clear", a help query ("?" or "help") and
\* any other line that does not begin with a hyphen (the quit commands aside)
\* go back to the prompt without changing argv; the empty line prints nothing,
\* "clear" clears the history, a help query prints only the usage hint, and any
\* other such line prints the invalid-option message and then the usage hint.
C14_RepromptStep ==
  (ReadsLine /\ (command' = << >> \/ command'[1] # "-")
             /\ LowerCase(command') \notin ClaimedQuitInputs) =>
    /\ BackToPrompt
    /\ out' = IF command' = << >> THEN out
              ELSE IF LowerCase(command') = <<"c", "l", "e", "a", "r">>
              THEN out \o <<"clearHistory", "history cleared", "saveHistory">>
              ELSE IF LowerCase(command') \in {<<"?">>, <<"h", "e", "l", "p">>}
              THEN out \o <<"valid example">>
              ELSE out \o <<"invalid option", "valid example">>

C14_Reprompt == [][C14_RepromptStep]_vars

\* C14 witness: the line "foo" was rejected and the shell is at the prompt again
C14_Witness ==
  /\ pc = "prompt"
  /\ prompts = 1
  /\ command = <<"f", "o", "o">>
  /\ out = <<"invalid option", "valid example">>
  /\ argv = OriginalArgv

\* how many times character c occurs in line
Count(line, c) == Cardinality({k \in 1..Len(line) : line[k] = c})

\* line has a quote that is never closed: it has no backslash, one kind of
\* quote only, and an odd number of them; or it ends in its only backslash and
\* has no quote
MalformedQuoting(line) ==
  \/ /\ Count(line, "\\") = 0
     /\ \/ Count(line, "'") = 0 /\ Count(line, "\"") % 2 = 1
        \/ Count(line, "\"") = 0 /\ Count(line, "'") % 2 = 1
  \/ /\ Count(line, "\\") = 1 /\ line[Len(line)] = "\\"
     /\ Count(line, "'") = 0 /\ Count(line, "\"") = 0

\* C15: when the accepted line has malformed quoting, tokenizing it raises the
\* syntax exception, which is neither the shell-quit exception nor the fatal
\* exit; argv is as it was, the pass and the parser have not run, and nothing
\* happens after it.
C15_MalformedStep ==
  /\ (pc = "tokenize" /\ MalformedQuoting(command)) =>
       /\ exc' = "SqlmapSyntaxException"
       /\ exc' \notin {"SqlmapShellQuitException", "SystemExit"}
       /\ pc' = "done"
       /\ argv' = argv
       /\ i' = 0 /\ dashFixed' = << >> /\ parserArgv' = << >> /\ args' = NoArgs
       /\ out' = out
  /\ exc = "SqlmapSyntaxException" => FALSE

C15_MalformedQuoting == [][C15_MalformedStep]_vars

\* C15 witness: the line --skip "a ended the call with the syntax exception
C15_Witness ==
  /\ pc = "done"
  /\ exc = "SqlmapSyntaxException"
  /\ command = <<"-", "-", "s", "k", "i", "p", " ", "\"", "a">>
  /\ argv = OriginalArgv
  /\ parserArgv = << >>

\* tok is one of the tokens of the sequence a
HasToken(a, tok) == \E k \in 1..Len(a) : a[k] = tok

\* C16: the prompt is reached only from the start of the call and only when the
\* original argv holds a --shell token; once a line has been accepted (or the
\* call has gone on without the shell) no step leads back to the prompt, even
\* when a typed token is --shell.
C16_ShellStep ==
  /\ (pc # "prompt" /\ pc' = "prompt") =>
       /\ pc = "start"
       /\ HasToken(argv, <<"-", "-", "s", "h", "e", "l", "l">>)
       /\ prompts = 0
  /\ pc \notin {"start", "prompt"} => pc' # "prompt"
  /\ pc = "prompt" => pc' \in {"prompt", "tokenize", "done"}

C16_ShellOnce == [][C16_ShellStep]_vars

\* C16 witness: "--shell -hh" was typed and accepted, the pass has gone over the
\* typed --shell, and the call has ended in the parser without another prompt
C16_Witness ==
  /\ pc = "done"
  /\ command = <<"-", "-", "s", "h", "e", "l", "l", " ", "-", "h", "h">>
  /\ prompts = 1
  /\ parserArgv = <<OriginalArgv \o <<<<"-", "-", "s", "h", "e", "l", "l">>, <<"-", "h">>>>>>

\* the version string has been printed
VersionPrinted(o) == \E k \in 1..Len(o) : o[k] = "version"

\* C17: when the token the pass is at is --version once sanitized, the step
\* prints the version and raises the fatal exit; the tokens after it are as the
\* command line had them; from then on the call only ends: the parser is never
\* called, no options exist, nothing is merged or expanded.
C17_VersionStep ==
  /\ (pc = "rewrite" /\ i < Len(argv) /\ Sanitize(At(argv, i)) = <<"-", "-", "v", "e", "r", "s", "i", "o", "n">>) =>
       /\ out' = Append(out, "version")
       /\ pc' = "except" /\ exc' = "SystemExit"
       /\ i' = i
       /\ Len(argv') = Len(argv)
       /\ \A k \in (i + 1)..(Len(argv) - 1) : At(argv', k) = At(raw, k)
  /\ VersionPrinted(out) =>
       /\ \/ pc = "except" /\ pc' \in {"keypress", "done"} /\ exc' = "SystemExit"
          \/ pc = "keypress" /\ pc' = "done" /\ exc' \in FatalOutcomes
       /\ argv' = argv
       /\ parserArgv' = << >> /\ args' = NoArgs /\ expanded' = << >>

C17_VersionShortCircuit == [][C17_VersionStep]_vars

\* C17 witness: the call ended at a --version in first position; the token after
\* it still has its unicode dash
C17_Witness ==
  /\ pc = "done"
  /\ exc = "SystemExit"
  /\ out = <<"version">>
  /\ raw = <<<<"-", "-", "v", "e", "r", "s", "i", "o", "n">>, <<"U+2013", "b", "a", "t", "c", "h">>>>
  /\ argv = raw
  /\ parserArgv = << >>

\* the call has asked for a key press
KeyPrompted == \E k \in 1..Len(out) : out[k] = "press enter"

\* C18 (as claimed): on the platform with the double-click guard, without
\* --non-interactive among the process arguments, every call that ends in the
\* fatal exit has asked for a key press first, the exit that reports an
\* ArgumentError or a TypeError included; a call that ends in the shell-quit or
\* the syntax exception has not.
C18_FatalExitPrompts ==
  /\ (pc = "done" /\ exc = "SystemExit" /\ env.isWin /\ ~env.nonInteractive) => KeyPrompted
  /\ exc \in {"SqlmapShellQuitException", "SqlmapSyntaxException"} => ~KeyPrompted

\* the key the aggregation keeps for each whitelisted option
KeyOfOption(opt) ==
  IF opt = <<"-", "-", "t", "a", "m", "p", "e", "r">> THEN <<"t", "a", "m", "p", "e", "r">>
  ELSE IF opt = <<"-", "-", "i", "g", "n", "o", "r", "e", "-", "c", "o", "d", "e">> THEN <<"i", "g", "n", "o", "r", "e">>
  ELSE <<"s", "k", "i", "p">>

\* tok is an occurrence of the option opt, in either value form
IsOccurrence(tok, opt) == tok = opt \/ StartsWith(tok, opt \o <<"=">>)

\* the position recorded for key in aux is p
Anchored(aux, key, p) == \E e \in aux : e.key = key /\ e.index = p

\* C19 (as claimed): during the pass a recorded anchor position is never
\* changed; at every occurrence of an option whose key has an anchor position,
\* the anchor is an earlier position, the token there gets a comma and a value
\* appended, the occurrence is set to empty, and every other token, the anchors
\* of the other keys among them, is left as it was.
C19_AnchorStep ==
  (pc = "rewrite" /\ i < Len(argv)) =>
    /\ \A e \in auxIndexes : e.index # None => e \in auxIndexes'
    /\ \A opt \in MultiValuedOptions : \A p \in 0..(Len(argv) - 1) :
         (IsOccurrence(Sanitize(At(argv, i)), opt) /\ Anchored(auxIndexes, KeyOfOption(opt), p)) =>
           /\ p < i
           /\ StartsWith(At(argv', p), At(argv, p) \o <<",">>)
           /\ At(argv', i) = << >>
           /\ \A k \in 0..(Len(argv) - 1) : k \notin {p, i} => At(argv', k) = At(argv, k)
           /\ auxIndexes' = auxIndexes

C19_AnchorFixed == [][C19_AnchorStep]_vars

\* with ASCII tokens only the anchors are kept apart: with a --tamper in between, the later --skip in bare form was
\* appended to the anchor --skip=a at position 0 and emptied
C19_Witness ==
  /\ PassDone
  /\ raw = <<<<"-", "-", "s", "k", "i", "p", "=", "a">>, <<"-", "-", "t", "a", "m", "p", "e", "r", "=", "t">>, <<"-", "-", "s", "k", "i", "p">>, <<"b">>>>
  /\ argv = <<<<"-", "-", "s", "k", "i", "p", "=", "a", ",", "b">>, <<"-", "-", "t", "a", "m", "p", "e", "r", "=", "t">>, << >>, <<"b">>>>
  /\ Anchored(auxIndexes, <<"s", "k", "i", "p">>, 0)
  /\ Anchored(auxIndexes, <<"t", "a", "m", "p", "e", "r">>, 1)

\* long options that take a value (lines 126 and 159)
ValuedLongOptions == {<<"u", "r", "l">>, <<"d", "a", "t", "a">>}

\* tok begins with one or two hyphens and then a word character
LooksLikeOption(tok) ==
  \/ Len(tok) >= 2 /\ tok[1] = "-" /\ tok[2] \in WordChars
  \/ Len(tok) >= 3 /\ tok[1] = "-" /\ tok[2] = "-" /\ tok[3] \in WordChars

\* tok is name=value with the name of a long option that takes a value
IsHyphenlessOption(tok) ==
  \E name \in ValuedLongOptions :
    Len(tok) > Len(name) + 1 /\ SubSeq(tok, 1, Len(name) + 1) = name \o <<"=">>

\* C20 (as claimed): when the token the pass is at, after the first one, is
\* name=value for a long option that takes a value and the token before it does
\* not look like an option, the step ends in the fatal exit with the
\* missing-hyphen diagnostic and the parser has not been called.
C20_MissingHyphenStep ==
  (/\ pc = "rewrite" /\ 0 < i /\ i < Len(argv)
   /\ IsHyphenlessOption(Sanitize(At(argv, i)))
   /\ ~LooksLikeOption(At(argv, i - 1))) =>
    /\ pc' = "except" /\ exc' = "SystemExit"
    /\ out' = Append(out, "missing hyphen")
    /\ parserArgv' = << >>

C20_MissingHyphenIsFatal == [][C20_MissingHyphenStep]_vars

\* the names of the catalogue: long options and long switches
Catalogue == longOptions \cup longSwitches

\* tok is one hyphen followed by three or more word characters
IsOneHyphenName(tok) ==
  Len(tok) >= 4 /\ tok[1] = "-" /\ tok[2] \in WordChars /\ tok[3] \in WordChars
  /\ tok[4] \in WordChars

\* the name of tok: without its hyphens, up to the first '='
NameOf(tok) == BeforeFirstEq(StripChars(tok, {"-"}))

\* tok holds no illegal character that an earlier rule of the chain rejects
NoIllegalCharacter(tok) == ~IsRichQuoted(tok) /\ ~HasRichComma(tok)

\* C21: when the token the pass is at is, once sanitized, one hyphen followed
\* by three or more word characters, with no illegal character, the step leaves
\* it with exactly one more leading hyphen if its name (hyphens removed, up to
\* the first '=') is in the catalogue, and leaves the sanitized token as it is
\* otherwise; no other position changes and the pass goes on.
C21_HyphenStep ==
  (/\ pc = "rewrite" /\ i < Len(argv)
   /\ IsOneHyphenName(Sanitize(At(argv, i)))
   /\ NoIllegalCharacter(Sanitize(At(argv, i)))) =>
    /\ pc' # "except"
    /\ argv' = Put(argv, i,
                   IF NameOf(Sanitize(At(argv, i))) \in Catalogue
                   THEN <<"-">> \o Sanitize(At(argv, i))
                   ELSE Sanitize(At(argv, i)))

C21_HyphenInjectedIffKnown == [][C21_HyphenStep]_vars

\* a known name with a value got its hyphen and an unknown name next to it did not
C21_Witness ==
  /\ raw = <<ProgramName, <<"-", "d", "a", "t", "a", "=", "x">>, <<"-", "a", "b", "c", "=", "x">>>>
  /\ argv = <<ProgramName, <<"-", "-", "d", "a", "t", "a", "=", "x">>, <<"-", "a", "b", "c", "=", "x">>>>
  /\ pc = "verbosity"

\* tok begins with the bare-URL/hostname pattern: the scheme, "www.", or a
\* word character, one or more of word characters, dots and hyphens, a dot and
\* two word characters
BeginsLikeUrl(tok) ==
  \/ Len(tok) >= 4 /\ SubSeq(tok, 1, 4) \in {<<"h", "t", "t", "p">>, <<"w", "w", "w", ".">>}
  \/ \E d \in 1..Len(tok) :
       /\ d >= 3 /\ d + 2 <= Len(tok)
       /\ tok[d] = "." /\ tok[d + 1] \in WordChars /\ tok[d + 2] \in WordChars
       /\ tok[1] \in WordChars
       /\ \A k \in 2..(d - 1) : tok[k] \in WordChars \cup {".", "-"}

\* the long form of a bare URL
UrlLongForm(tok) == <<"-", "-", "u", "r", "l", "=">> \o tok

\* C22: the step of the pass leaves --url=<token> at the position it is at, for
\* the sanitized token, if and only if that position is 1 and the sanitized
\* token begins with the bare-URL/hostname pattern; at position 1 such a token
\* is rewritten, not rejected, also when it holds an illegal character; every
\* token typed in the shell is at a position after the original command line,
\* so none of them is rewritten.
C22_UrlStep ==
  (pc = "rewrite" /\ i < Len(argv)) =>
    /\ (i = 1 /\ BeginsLikeUrl(Sanitize(At(argv, i)))) =>
         (pc' # "except" /\ argv' = Put(argv, i, UrlLongForm(Sanitize(At(argv, i)))))
    /\ ~(i = 1 /\ BeginsLikeUrl(Sanitize(At(argv, i)))) =>
         (pc' = "except" \/ At(argv', i) # UrlLongForm(Sanitize(At(argv, i))))
    /\ (command # << >> /\ raw = OriginalArgv \o ShlexSplit(command).tokens) =>
         \A k \in Len(OriginalArgv)..(Len(raw) - 1) :
           At(argv', k) # UrlLongForm(Sanitize(At(raw, k))) /\ k # 1

C22_UrlShorthandAtPositionOne == [][C22_UrlStep]_vars

\* a bare URL with a full-width comma at position 1 became the long form
C22_Witness ==
  /\ raw = <<ProgramName, <<"w", "w", "w", ".", "x", ".", "i", "o", "/", "?", "a", "=", "1", "U+FF0C", "2">>>>
  /\ argv = <<ProgramName, <<"-", "-", "u", "r", "l", "=", "w", "w", "w", ".", "x", ".", "i", "o", "/", "?", "a", "=", "1", "U+FF0C", "2">>>>
  /\ pc = "verbosity" /\ out = << >>

\* the sequence as the pass leaves it, for the command line in raw
AfterPass == PassFrom(PassStart(raw), 0).argv

\* tok is a hyphen followed by one or more 'v'
IsVerbosityToken(tok) ==
  Len(tok) >= 2 /\ tok[1] = "-" /\ \A k \in 2..Len(tok) : tok[k] = "v"

\* the positions (from 0) of a that hold a verbosity token that is last or
\* whose next token is not purely numeric
Standalone(a) ==
  {k \in 0..(Len(a) - 1) :
     /\ IsVerbosityToken(At(a, k))
     /\ (k = Len(a) - 1 \/ ~IsDigits(At(a, k + 1)))}

\* a without the tokens at the positions (from 0) in R
RECURSIVE Without(_, _)
Without(a, R) ==
  IF a = << >> THEN << >>
  ELSE LET front == Without(SubSeq(a, 1, Len(a) - 1), R) IN
         IF (Len(a) - 1) \in R THEN front ELSE Append(front, a[Len(a)])

\* C23 (as claimed): when the verbosity loop has ended, every verbosity token
\* that the pass left last or before a token that is not purely numeric is gone
\* from the sequence, every other token is still there in order, and if there
\* was such a token the verbosity level is the number of 'v' of one of them.
C23_EachVerbosityTokenRemoved ==
  (pc = "parse" /\ raw # << >>) =>
    /\ argv = Without(AfterPass, Standalone(AfterPass))
    /\ Standalone(AfterPass) # { } =>
         \E k \in Standalone(AfterPass) : verbose = CountV(At(AfterPass, k))

\* the two spellings of the silent flag
SilentTokens == {<<"-", "s">>, <<"-", "-", "s", "i", "l", "e", "n", "t">>}

\* the token at position k of a is last, or the one after it starts with a hyphen
LastOrBeforeOption(a, k) ==
  k = Len(a) - 1 \/ (At(a, k + 1) # << >> /\ At(a, k + 1)[1] = "-")

\* C24: when the token the pass is at is -s or --silent, the step empties it
\* and sets the verbosity to 0 if it is the last token or the next token starts
\* with a hyphen; otherwise (the next token is its value) the token and the
\* verbosity are as they were. Nothing else in the sequence changes.
C24_SilentStep ==
  (pc = "rewrite" /\ i < Len(argv) /\ Sanitize(At(argv, i)) \in SilentTokens) =>
    /\ pc' # "except"
    /\ LastOrBeforeOption(argv, i) =>
         (argv' = Put(argv, i, << >>) /\ verbose' = 0)
    /\ ~LastOrBeforeOption(argv, i) =>
         (argv' = Put(argv, i, Sanitize(At(argv, i))) /\ verbose' = verbose)

C24_SilentFlagOrValue == [][C24_SilentStep]_vars

\* --silent before an option was emptied and the verbosity is 0
C24_Witness ==
  /\ raw = <<ProgramName, <<"-", "-", "s", "i", "l", "e", "n", "t">>, <<"-", "u">>>>
  /\ argv = <<ProgramName, << >>, <<"-", "u">>>>
  /\ verbose = 0 /\ pc = "verbosity"

\* tok is one or more digits followed by '!'
IsDigitsBang(tok) ==
  Len(tok) >= 2 /\ tok[Len(tok)] = "!" /\ \A k \in 1..(Len(tok) - 1) : tok[k] \in Digits

\* the spellings of the threads option that the rewriter accepts
ThreadsSpellings == {<<"-", "t", "h", "r", "e", "a", "d", "s">>, <<"-", "-", "t", "h", "r", "e", "a", "d", "s">>}

\* tok is the threads option with an embedded value of digits followed by '!'
IsThreadsWithBang(tok) ==
  \E t \in ThreadsSpellings :
    /\ Len(tok) > Len(t) + 1
    /\ SubSeq(tok, 1, Len(t) + 1) = t \o <<"=">>
    /\ IsDigitsBang(SubSeq(tok, Len(t) + 2, Len(tok)))

\* position k (from 0) of a holds a thread count written with a trailing '!'
IsForcedThreadCount(a, k) ==
  \/ IsThreadsWithBang(At(a, k))
  \/ k > 0 /\ IsDigitsBang(At(a, k)) /\ At(a, k - 1) \in ThreadsSpellings

\* C25 (as claimed): when the sequence is handed to the parser, no thread
\* count in it still ends with '!', and the skip-thread-check flag is set
\* exactly when the command line held a thread count written with a trailing
\* '!', in either form and with one or two leading hyphens.
C25_ThreadOverrideStripped ==
  (pc = "parse" /\ raw # << >>) =>
    /\ \A k \in 0..(Len(argv) - 1) : ~IsForcedThreadCount(argv, k)
    /\ skipThreadCheck <=> \E k \in 0..(Len(raw) - 1) : IsForcedThreadCount(raw, k)

\* the basic-help flags
BasicHelpTokens == {<<"-", "h">>, <<"-", "-", "h", "e", "l", "p">>}

\* the pass met a basic-help flag on the command line in raw
BasicHelpSeen == \E k \in 1..Len(raw) : Sanitize(raw[k]) \in BasicHelpTokens

\* the hint about -hh was printed
HintShown == \E k \in 1..Len(out) : out[k] = "hh hint"

\* C26 (as claimed): when the option parser has exited, the hint about -hh has
\* been shown exactly when the pass met a -h or a --help token; with -hh alone
\* there is no hint.
C26_HintIffBasicHelp ==
  (pc \in {"except", "keypress", "done"} /\ parserArgv # << >> /\ parsed.raises = "none"
   /\ parsed.exits /\ raw # << >>) =>
    (HintShown <=> BasicHelpSeen)

\* the two spellings of the header-setting option
HeaderFlags == {<<"-", "H">>, <<"-", "-", "h", "e", "a", "d", "e", "r">>}

\* tok is a header-setting option, alone or with its value after '='
IsHeaderFlag(tok) ==
  \/ tok \in HeaderFlags
  \/ \E f \in HeaderFlags : Len(tok) > Len(f) /\ SubSeq(tok, 1, Len(f) + 1) = f \o <<"=">>

\* the header values of the command line a from position k (from 0) on, in
\* order: the text after '=', or the token that follows the option
RECURSIVE HeadersFrom(_, _)
HeadersFrom(a, k) ==
  IF k >= Len(a) THEN << >>
  ELSE IF ~IsHeaderFlag(Sanitize(At(a, k))) THEN HeadersFrom(a, k + 1)
  ELSE IF HasChar(Sanitize(At(a, k)), "=")
       THEN <<AfterFirstEq(Sanitize(At(a, k)))>> \o HeadersFrom(a, k + 1)
       ELSE IF k + 1 < Len(a)
            THEN <<At(a, k + 1)>> \o HeadersFrom(a, k + 2)
            ELSE << >>

\* C27 (as claimed): a header-setting option never ends the run; when the
\* sequence is handed to the parser, the extra headers are the values of every
\* -H/--header occurrence of the command line, in order, and no token of the
\* sequence is a header-setting option any more.
C27_HeadersCapturedNotPassed ==
  /\ (pc = "except" /\ exc = "SystemExit" /\ parserArgv = << >> /\ i < Len(raw)) =>
       ~IsHeaderFlag(Sanitize(At(raw, i)))
  /\ (pc = "parse" /\ raw # << >>) =>
       /\ extraHeaders = HeadersFrom(raw, 0)
       /\ \A k \in 1..Len(argv) : ~IsHeaderFlag(argv[k])

\* the separator of a bulk headers value: the two-character escape if the
\* value holds it, a real newline otherwise
SeparatorOf(bulk) ==
  IF \E k \in 1..(Len(bulk) - 1) : bulk[k] = "\\" /\ bulk[k + 1] = "n"
  THEN <<"\\", "n">>
  ELSE <<"\n">>

\* text with every header of list appended, each after the separator sep
RECURSIVE AppendEach(_, _, _)
AppendEach(text, list, sep) ==
  IF list = << >> THEN text
  ELSE AppendEach(text \o sep \o Head(list), Tail(list), sep)

\* C28: after the merge, if the pass captured header values, the headers value
\* is the bulk value the parser answered (empty when absent) followed by each
\* header value of the command line, in order, each after the separator: the
\* two-character escape if the bulk value holds it, a real newline otherwise;
\* if the pass captured none, the headers value is what the parser answered.
C28_HeadersAppended ==
  pc = "mnemonics" =>
    /\ extraHeaders # << >> =>
         /\ extraHeaders = HeadersFrom(raw, 0)
         /\ args.headers =
              <<AppendEach(BulkHeaders, HeadersFrom(raw, 0), SeparatorOf(BulkHeaders))>>
    /\ extraHeaders = << >> => args.headers = parsed.args.headers

\* two header options were appended to a bulk value that uses the escape
C28_Witness ==
  /\ pc = "mnemonics"
  /\ raw = <<ProgramName, <<"-", "-", "h", "e", "a", "d", "e", "r", "=", "X", ":", "1">>, <<"-", "H">>, <<"Y", ":", "2">>>>
  /\ parsed.args.headers = <<<<"A", ":", "1", "\\", "n", "B", ":", "2">>>>
  /\ args.headers = <<<<"A", ":", "1", "\\", "n", "B", ":", "2", "\\", "n", "X", ":", "1", "\\", "n", "Y", ":", "2">>>>

\* cmd without any of its leading "new " prefixes, in any letter case
RECURSIVE WithoutNewPrefixes(_)
WithoutNewPrefixes(cmd) ==
  IF /\ Len(cmd) >= 4
     /\ LowerCase(SubSeq(cmd, 1, 3)) = <<"n", "e", "w">>
     /\ cmd[4] \in Whitespace
  THEN WithoutNewPrefixes(
         SubSeq(cmd, 4 + LeadRun(SubSeq(cmd, 4, Len(cmd)), Whitespace), Len(cmd)))
  ELSE cmd

\* the command of a typed line: the line without the white space around it and
\* without its leading "new " prefixes
BareCommand(text) == WithoutNewPrefixes(StripChars(text, Whitespace))

\* C29 (as claimed): a step that reads a typed line with one or several leading
\* "new " prefixes, in any letter case, is the step that reads the line without
\* them: the same command is classified, with the same outcome (quit, clear,
\* re-prompt, or acceptance of an option line).
C29_NewPrefixStep == \A text \in ShellLines : ShellRead(text) => ShellRead(BareCommand(text))

C29_NewPrefixesStripped == [][C29_NewPrefixStep]_vars

\* the dummy step has run: the run is at the standard-input step, at the
\* mandatory-target check, or past it
PastDummy == pc \in {"stdin", "validate"} \/ Returned \/ Refused

\* the parser answered with the dummy flag set
DummySet == "dummy" \in parsed.args.set

\* the parser answered with a URL: a text that is not empty
UrlGiven == parsed.args.url # << >> /\ parsed.args.url[1] # << >>

\* C30: once the dummy step has run, the URL is the fixed placeholder if the
\* dummy flag is set and no URL was given (absent, or an empty text), and is
\* the URL the parser answered in every other case, so a given URL is never
\* replaced; and with the dummy flag set the mandatory-target check does not
\* refuse.
C30_DummyUrl ==
  PastDummy =>
    /\ (DummySet /\ ~UrlGiven) => args.url = <<DUMMY_URL>>
    /\ UrlGiven => args.url = parsed.args.url
    /\ ~DummySet => args.url = parsed.args.url
    /\ DummySet => ~Refused

\* the dummy flag alone, no URL and no other target: the placeholder is the
\* URL and the check accepted
C30_Witness ==
  /\ Returned /\ DummySet
  /\ parsed.args.url = << >>
  /\ parsed.args.set \cap TargetDests = { }
  /\ ~args.stdinPipe
  /\ args.url = <<DUMMY_URL>>

\* the standard-input step has run
PastStdin == pc = "validate" \/ Returned \/ Refused

\* standard input is a pipe, is not disabled, and the run is not under CI
PipedAndWanted ==
  /\ env.fileno /\ ~env.tty
  /\ "ignoreStdin" \notin parsed.args.set
  /\ ~env.ci

\* C31: the options hold the standard-input line sequence only when standard
\* input is piped (not a terminal), is not disabled and the run is not under
\* CI: in every other case the field is None. The field is set on every run
\* that gets to the step, whatever the target options are: when those
\* conditions hold (and the run is not driven through the API) it is present.
C31_StdinPipeOnlyWhenPiped ==
  /\ args.stdinPipe => PipedAndWanted
  /\ (PastStdin /\ PipedAndWanted /\ "api" \notin parsed.args.set) => args.stdinPipe

\* piped standard input alone, with no URL and no target option, was exposed
\* and the run returned
C31_Witness ==
  /\ Returned
  /\ args.stdinPipe
  /\ env.fileno /\ ~env.tty /\ ~env.ci
  /\ args.set = { } /\ args.url = << >>

\* the mnemonic flag
MacroFlag == <<"-", "z">>

\* the tokens of a that directly follow a mnemonic flag, in order
RECURSIVE MacroValues(_)
MacroValues(a) ==
  IF Len(a) < 2 THEN << >>
  ELSE LET front == MacroValues(SubSeq(a, 1, Len(a) - 1)) IN
         IF a[Len(a) - 1] = MacroFlag THEN Append(front, a[Len(a)]) ELSE front

\* the destinations the macro values of list set
MacroDests(list) == UNION {MnemonicDests(list[k]) : k \in 1..Len(list)}

\* C32: no macro is expanded before or while the headers are merged; the step
\* after the merge expands, once and in order, the token after every -z of the
\* sequence the parser was given (a -z that is last expands nothing), sets
\* the destinations of those macros, and comes before the dummy substitution,
\* the standard-input step and the mandatory-target check, none of which
\* expands anything; a destination set by a macro counts for that check.
C32_MacroStep ==
  /\ pc \in {"parse", "headers"} => (expanded = << >> /\ expanded' = << >>)
  /\ pc = "mnemonics" =>
       /\ pc' = "dummy"
       /\ expanded' = MacroValues(argv)
       /\ argv = parserArgv[Len(parserArgv)]
       /\ args'.set = args.set \cup MacroDests(MacroValues(argv))
       /\ args'.url = parsed.args.url /\ ~args'.stdinPipe
       /\ extraHeaders = << >> => args'.headers = parsed.args.headers
       /\ extraHeaders # << >> => args'.headers # parsed.args.headers
  /\ pc \in {"dummy", "stdin", "validate"} =>
       (expanded' = expanded /\ MacroDests(expanded) \subseteq args.set)
  /\ (pc = "validate" /\ MacroDests(expanded) \cap TargetDests # { }) =>
       (pc' = "done" /\ exc' = "none")

C32_MacrosExpandedInOrder == [][C32_MacroStep]_vars

\* two macros were expanded in order, the first sets the only target, and the
\* run returned
C32_Witness ==
  /\ Returned
  /\ raw = <<ProgramName, <<"-", "z">>, <<"w", "i", "z">>, <<"-", "z">>, <<"p", "u", "r">>>>
  /\ expanded = <<<<"w", "i", "z">>, <<"p", "u", "r">>>>
  /\ parsed.args = NoArgs
  /\ args.set = {"wizard", "purge"}

\* the rule of the ordered list that claims the token at position k of a: the
\* first one, in priority order, whose test the token passes
FirstRule(a, k) ==
  LET t == At(a, k) IN
  IF t = <<"-", "h", "h">> THEN "advanced help"
  ELSE IF k = 1 /\ BeginsLikeUrl(t) THEN "url"
  ELSE IF IsRichQuoted(t) \/ HasRichComma(t) \/ IsShortWithEq(t) THEN "illegal"
  ELSE IF IsOneHyphenName(t) THEN "hyphen injection"
  ELSE IF t \in IGNORED_OPTIONS \cup DEPRECATED_OPTIONS THEN "dropped"
  ELSE IF t \in SilentTokens THEN "silent"
  ELSE IF \E p \in {<<"-", "-", "d", "a", "t", "a", "-", "r", "a", "w">>, <<"-", "-", "a", "u", "t", "h", "-", "c", "r", "e", "d", "s">>, <<"-", "-", "d", "r", "o", "p", "-", "c", "o", "o", "k", "i", "e">>} : StartsWith(t, p)
    THEN "renaming"
  ELSE IF IsTamperJunk(t) THEN "dropped"
  ELSE IF IsMultiValued(t) THEN "aggregation"
  ELSE IF IsHeaderFlag(t) THEN "header"
  ELSE IF t \in {<<"-", "-", "d", "e", "p", "s">>, <<"-", "-", "d", "i", "s", "a", "b", "l", "e", "-", "c", "o", "l", "o", "u", "r", "i", "n", "g">>} THEN "renaming"
  ELSE IF t = <<"-", "r">> THEN "request files"
  ELSE IF IsThreadOverride(a, k) THEN "thread suffix"
  ELSE IF t = <<"-", "-", "v", "e", "r", "s", "i", "o", "n">> THEN "version"
  ELSE IF t \in BasicHelpTokens THEN "basic help"
  ELSE IF IsMissingHyphen(a, k) THEN "missing hyphen"
  ELSE "none"

\* the rules that end the run
FatalRules == {"illegal", "version", "missing hyphen"}

\* the rules that write to a position other than the one the pass is at
FarReachingRules == {"aggregation", "request files"}

\* the rules that leave the sanitized token as it is
ReadOnlyRules == FatalRules \cup {"header", "basic help", "none"}

\* C33: one iteration of the pass changes only what the first rule that claims
\* the sanitized token may change: each side channel (anchors, extra headers,
\* help flag, verbosity, skip-thread-check flag, diagnostics) belongs to one
\* rule and is untouched by an iteration that another rule claims, and only
\* aggregation and the request-file loader write to another position. A token
\* fixed by hyphen injection is left as the fixed text: it is not then
\* stripped of a thread suffix, aggregated, or taken for --version or --help.
C33_OneRuleStep ==
  (pc = "rewrite" /\ i < Len(argv)) =>
    LET t == Sanitize(At(argv, i))
        r == FirstRule(Put(argv, i, t), i)
    IN
    /\ r # "aggregation" => auxIndexes' = auxIndexes
    /\ r # "header" => extraHeaders' = extraHeaders
    /\ r # "basic help" => advancedHelp' = advancedHelp
    /\ r # "silent" => verbose' = verbose
    /\ r # "thread suffix" => skipThreadCheck' = skipThreadCheck
    /\ r \notin FatalRules => (out' = out /\ pc' # "except")
    /\ r \in FatalRules => pc' = "except"
    /\ r \notin FarReachingRules =>
         \A j \in 0..(Len(argv) - 1) : j # i => At(argv', j) = At(argv, j)
    /\ r \in ReadOnlyRules => At(argv', i) = t
    /\ r = "hyphen injection" =>
         At(argv', i) = IF NameOf(t) \in Catalogue THEN <<"-">> \o t ELSE t

C33_FirstMatchingRuleOnly == [][C33_OneRuleStep]_vars

\* a thread count fixed by hyphen injection kept its suffix and the flag is
\* not set
C33_Witness ==
  /\ raw = <<ProgramName, <<"-", "t", "h", "r", "e", "a", "d", "s", "=", "5", "!">>, <<"-", "s", "k", "i", "p", "=", "a">>>>
  /\ argv = <<ProgramName, <<"-", "-", "t", "h", "r", "e", "a", "d", "s", "=", "5", "!">>, <<"-", "-", "s", "k", "i", "p", "=", "a">>>>
  /\ ~skipThreadCheck /\ auxIndexes = { }
  /\ pc = "verbosity"

\* C34 (as claimed): at the end of the pass, the captured headers are, in
\* order, the text after '=' of each header option and, for an option in bare
\* form, the text that the token after it has in the sequence the pass leaves:
\* the value was sanitized before it was read.
C34_LookaheadReadsSanitized == PassDone => extraHeaders = HeadersFrom(argv, 0)

\* the pass emptied a silent flag of the command line
SilentDeleted ==
  \E k \in 1..Len(raw) :
    Sanitize(raw[k]) \in SilentTokens /\ k <= Len(AfterPass) /\ AfterPass[k] = << >>

\* how many tokens of a are a hyphen followed by exactly n 'v'
ShorthandCount(a, n) ==
  Cardinality({k \in 1..Len(a) : IsVerbosityToken(a[k]) /\ Len(a[k]) = n + 1})

\* the repeat counts of the shorthand tokens that the verbosity loop removed:
\* the sequence holds fewer of them than the pass left
ConsumedLevels ==
  {n \in 1..3 : ShorthandCount(argv, n) < ShorthandCount(AfterPass, n)}

\* C35: when the verbosity loop has ended, if the pass deleted a silent flag
\* and the loop consumed a shorthand token, the verbosity level is the repeat
\* count of a consumed shorthand token, not the 0 of the silent flag, wherever
\* the two tokens are in the command line.
C35_ShorthandOverridesSilent ==
  (pc = "parse" /\ raw # << >> /\ SilentDeleted /\ ConsumedLevels # { }) =>
    verbose \in ConsumedLevels

\* the shorthand came first and the silent flag last: the level is 2
C35_Witness ==
  /\ pc = "parse"
  /\ raw = <<ProgramName, <<"-", "v", "v">>, <<"x">>, <<"-", "s">>>>
  /\ argv = <<ProgramName, <<"x">>, << >>>>
  /\ verbose = 2

\* the destinations of the alternatives that the missing-mandatory-option
\* message names (-d, -l, -m, -r, -g, -c, --wizard, --shell, --update, --purge,
\* --list-tampers, --dependencies); -u is the URL
NamedAlternatives ==
  {"direct", "logFile", "bulkFile", "requestFile", "googleDork", "configFile",
   "wizard", "shell", "updateAll", "purge", "listTampers", "dependencies"}

\* the named alternatives that the options a hold
Supplied(a) ==
  (a.set \cap NamedAlternatives) \cup (IF Truthy(a.url) THEN {"url"} ELSE { })

\* C36 (as claimed): when the mandatory-target check has run on options in
\* which exactly one of the alternatives named by the message is set, it has
\* accepted.
C36_NamedAlternativeSuffices ==
  ((Returned \/ Refused) /\ Cardinality(Supplied(parsed.args)) = 1) => Returned

\* lines 987-1070: the positions other than k that the iteration at position k
\* reads or writes, the token at k sanitized first (lines 987-990)
IterationAccesses(s, k) ==
  NeighbourAccesses([s EXCEPT !.argv = Put(@, k, Sanitize(At(@, k)))], k)

\* C37 (as claimed): every neighbour position that the iteration of the pass at
\* position i reads or writes is a position of the sequence other than i itself,
\* whichever position i is: no lookahead goes past the last token and no
\* lookbehind goes before the first one or wraps around to the last one.
C37_NeighbourAccessesExist ==
  (pc = "rewrite" /\ i < Len(argv)) =>
    \A r \in IterationAccesses(PassState, i) : 0 <= r /\ r < Len(argv) /\ r # i

====
